---- MODULE Spec2Model ----
(***************************************************************************)
(* Transactional outbox of thiam-api: the outbox_events table and its      *)
(* repository (internal/repo/persistent/outbox_postgres.go) and the        *)
(* polling worker that drains it (pkg/eventbus/worker.go).                 *)
(***************************************************************************)
EXTENDS Integers, Sequences, FiniteSets, TLC

(* ---------------------------------------------------------------------- *)
(* Bounds of the model                                                     *)
(* ---------------------------------------------------------------------- *)
MaxEvents == 2
MaxCreatedAt == 2
MaxClock == 2
MaxDbFaults == 1
MaxStoreBatch == 2
MaxRetryCount == 2
\* largest values given to WithBatchSize and WithMaxRetries
MaxBatchSize == 2
MaxMaxRetries == 2

EventIds == 1..MaxEvents
Workers == {"w1", "w2"}
ErrorMsgs == {"network error", "connection failed"}
PublishErrors == {"network error"}
Limits == (0 - 1)..(MaxEvents + 1)

\* a nil pointer / SQL NULL, and a pointer to (non-NULL) value v
Nil == <<>>
Ptr(v) == <<v>>

Min(a, b) == IF a < b THEN a ELSE b

VARIABLES
    outbox,     \* table outbox_events: id -> row
    now,        \* wall clock read by time.Now()
    dbFaults,   \* number of injected infrastructure errors of the store
    ret,        \* the last direct call of a repository method and its result
    active,     \* the workers constructed in this run
    batchSize,  \* per worker: field batchSize
    maxRetries, \* per worker: field maxRetries
    pc,         \* per worker: position of its run goroutine
    batch,      \* per worker: events returned by FetchUnpublished
    idx,        \* per worker: position of the range loop in the batch
    stop,       \* per worker: channel stop is closed
    done,       \* per worker: channel done is closed
    stopPc,     \* per worker: position of the caller of Stop()
    calls,      \* per worker: store and publisher calls of the current tick
    ctxDone,    \* the context passed to Start is cancelled
    busUp,      \* the broker accepts every publish from now on
    attempts,   \* per event: every Publish call and the store write after it
    notifications, \* table notifications: the rows NotificationRepo.Store wrote
    deliveryLogs,  \* table notification_delivery_logs
    svc,        \* the last call of a Service method: inputs, calls made, result
    fcm,        \* the last call of FCMSender.SendWithResult
    msgs,       \* channel msgs: deliveries the broker has sent to the consumer
    msgsClosed, \* channel msgs is closed
    acked,      \* message ids of the deliveries acknowledged to the broker
    subPc,      \* position of the goroutine of RabbitMQSubscriber.Subscribe
    delivery,   \* the delivery that goroutine holds
    nwPc,       \* position of processEvents of the notification worker
    nwEvent,    \* the event processEvents received
    handled,    \* events for which handleEvent has returned, with its outcome
    bus,        \* the exchange, the subscriber's queue and the events it delivered
    sampler,    \* a logger.Sampler and the callers inside ShouldLog
    pushTokens  \* table push_tokens

repoVars == <<outbox, now, dbFaults>>
workerVars == <<active, batchSize, maxRetries, pc, batch, idx, stop, done, stopPc, calls>>
envVars == <<ctxDone, busUp, attempts>>
svcVars == <<notifications, deliveryLogs, svc>>
subVars == <<msgs, msgsClosed, acked, subPc, delivery, nwPc, nwEvent, handled>>
auxVars == <<bus, sampler, pushTokens>>
notifyVars == <<svcVars, fcm, subVars, auxVars>>
vars == <<outbox, now, dbFaults, ret, active, batchSize, maxRetries, pc, batch, idx, stop, done,
          stopPc, calls, ctxDone, busUp, attempts, notifications, deliveryLogs, svc, fcm,
          msgs, msgsClosed, acked, subPc, delivery, nwPc, nwEvent, handled, bus, sampler,
          pushTokens>>

(* ---------------------------------------------------------------------- *)
(* OutboxEvent and the outbox_events table                                 *)
(* ---------------------------------------------------------------------- *)
\* event.NewOutboxEvent: the producer's event, RetryCount 0, nothing published
NewOutboxEvent(id, t) ==
    [id |-> id, aggregate_type |-> "translation", aggregate_id |-> id,
     event_type |-> "translation.created", payload |-> id, created_at |-> t,
     published_at |-> Nil, retry_count |-> 0, last_error |-> Nil]

\* one VALUES tuple of the INSERT: six columns from the event, the other
\* three take their column defaults
InsertRow(e) ==
    [id |-> e.id, aggregate_type |-> e.aggregate_type,
     aggregate_id |-> e.aggregate_id, event_type |-> e.event_type,
     payload |-> e.payload, created_at |-> e.created_at,
     published_at |-> Nil, retry_count |-> 0, last_error |-> Nil]

\* the rows of one multi-row INSERT, applied in order; stops at the first
\* primary-key conflict
RECURSIVE InsertValues(_, _)
InsertValues(tbl, events) ==
    IF events = <<>> THEN [ok |-> TRUE, tbl |-> tbl]
    ELSE IF Head(events).id \in DOMAIN tbl THEN [ok |-> FALSE, tbl |-> tbl]
    ELSE InsertValues(tbl @@ (Head(events).id :> InsertRow(Head(events))),
                      Tail(events))

StatementResult_partial(before, r) == r.tbl

\* Pool.Exec of a single statement: its rows are visible only if the whole
\* statement succeeded
StatementResult(before, r) == IF r.ok THEN r.tbl ELSE before

\* OutboxRepo.Store
Store(tbl, events, fault) ==
    IF Len(events) = 0 THEN [err |-> Nil, tbl |-> tbl]
    ELSE IF fault THEN [err |-> Ptr("OutboxRepo.Store - exec"), tbl |-> tbl]
    ELSE LET r == InsertValues(tbl, events)
         IN  [err |-> IF r.ok THEN Nil ELSE Ptr("OutboxRepo.Store - exec"),
              tbl |-> StatementResult(tbl, r)]

ClampLimit_wrap(limit) == IF limit < 0 THEN MaxEvents + 1 ELSE limit

\* "if limit < 0 { limit = 0 }"
ClampLimit(limit) == IF limit < 0 THEN 0 ELSE limit

WherePublishedAtIsNull_all(tbl) == DOMAIN tbl

\* WHERE published_at IS NULL
WherePublishedAtIsNull(tbl) == {id \in DOMAIN tbl : tbl[id].published_at = Nil}

OrderedByCreatedAt_desc(tbl, s) ==
    \A i \in 1..Len(s), j \in 1..Len(s) :
        i < j => tbl[s[i]].created_at >= tbl[s[j]].created_at

\* ORDER BY created_at ASC
OrderedByCreatedAt(tbl, s) ==
    \A i \in 1..Len(s), j \in 1..Len(s) :
        i < j => tbl[s[i]].created_at <= tbl[s[j]].created_at

\* the id sequences the query may return: every ordering of the matching
\* rows by created_at (rows with equal created_at come in any order), cut
\* after the first n
QueryResults(tbl, n) ==
    LET U == WherePublishedAtIsNull(tbl)
        k == Cardinality(U)
        full == {s \in [1..k -> U] :
                    /\ \A i \in 1..k, j \in 1..k : i # j => s[i] # s[j]
                    /\ OrderedByCreatedAt(tbl, s)}
    IN  {SubSeq(s, 1, Min(n, k)) : s \in full}

\* rows.Scan: the eight selected columns; PublishedAt is not selected
ScanRow(row) == [row EXCEPT !.published_at = Nil]

\* OutboxRepo.FetchUnpublished: the set of results the call may return
FetchUnpublished(tbl, limit, fault) ==
    IF fault
    THEN {[err |-> Ptr("OutboxRepo.FetchUnpublished - query"), events |-> <<>>]}
    ELSE {[err |-> Nil, events |-> [i \in 1..Len(s) |-> ScanRow(tbl[s[i]])]] :
             s \in QueryResults(tbl, ClampLimit(limit))}

SetPublishedAt_reset(row, t) ==
    [row EXCEPT !.published_at = Ptr(t), !.retry_count = 0]

\* Set("published_at", time.Now().UTC())
SetPublishedAt(row, t) == [row EXCEPT !.published_at = Ptr(t)]

\* OutboxRepo.MarkPublished: UPDATE ... WHERE id = ?
MarkPublished(tbl, id, t, fault) ==
    IF fault THEN [err |-> Ptr("OutboxRepo.MarkPublished - exec"), tbl |-> tbl]
    ELSE [err |-> Nil,
          tbl |-> [i \in DOMAIN tbl |->
                      IF i = id THEN SetPublishedAt(tbl[i], t) ELSE tbl[i]]]

SetFailed_stale(row, errMsg) ==
    [row EXCEPT !.retry_count = 1, !.last_error = Ptr(errMsg)]

\* Set("retry_count", retry_count + 1), Set("last_error", errMsg)
SetFailed(row, errMsg) ==
    [row EXCEPT !.retry_count = @ + 1, !.last_error = Ptr(errMsg)]

MarkFailed_everyRow(tbl, id, errMsg, fault) ==
    IF fault THEN [err |-> Ptr("OutboxRepo.MarkFailed - exec"), tbl |-> tbl]
    ELSE [err |-> Nil, tbl |-> [i \in DOMAIN tbl |-> SetFailed(tbl[i], errMsg)]]

\* OutboxRepo.MarkFailed: UPDATE ... WHERE id = ?
MarkFailed(tbl, id, errMsg, fault) ==
    IF fault THEN [err |-> Ptr("OutboxRepo.MarkFailed - exec"), tbl |-> tbl]
    ELSE [err |-> Nil,
          tbl |-> [i \in DOMAIN tbl |->
                      IF i = id THEN SetFailed(tbl[i], errMsg) ELSE tbl[i]]]

(* ---------------------------------------------------------------------- *)
(* Notification dispatch service (internal/usecase/notification/service.go)*)
(* ---------------------------------------------------------------------- *)
MaxNotifications == 1
MaxDeliveryLogs == 1
MaxTokens == 2

Users == {"u1", "u2"}
Tokens == {"tok1", "tok2"}
ActionURLs == {"", "/translations/1"}

\* fmt.Errorf("prefix: %w", err)
Wrap(prefix, err) == Ptr(<<prefix, err[1]>>)

\* a call the service makes on one of its collaborators, and its error
SvcCall(op, arg, err) == [op |-> op, arg |-> arg, err |-> err]

\* the channel toggles of notification.UserPreferences
UserPreferences ==
    [EmailEnabled : BOOLEAN, PushEnabled : BOOLEAN, InAppEnabled : BOOLEAN]

\* results of NotificationPreferencesRepo.Get: the row, errPreferencesNotFound
\* when the user has none, or the error of the query
PrefsResults ==
    {[prefs |-> Ptr(p), err |-> Nil] : p \in UserPreferences}
    \cup {[prefs |-> Nil, err |-> Ptr(m)] :
             m \in {"preferences not found", "NotificationPreferencesRepo - Get"}}

\* notification.PushToken rows of one user, as the PushTokenRepo interface
\* returns them
PushTokenLists ==
    LET T == [Token : Tokens, Active : BOOLEAN]
    IN  {s \in UNION {[1..n -> T] : n \in 0..MaxTokens} :
            \A i \in 1..Len(s), j \in 1..Len(s) : i # j => s[i].Token # s[j].Token}

\* results of PushTokenRepo.GetByUserID
TokensResults ==
    {[tokens |-> s, err |-> Nil] : s \in PushTokenLists}
    \cup {[tokens |-> <<>>, err |-> Ptr("PushTokenRepo - GetByUserID")]}

\* results of a sender or of a store write
SendResults == {Nil, Ptr("send failed")}
ExecResults == {Nil, Ptr("exec failed")}

\* what the collaborators of the service answer during one call, and which
\* senders ServiceDeps configured
Envs ==
    [prefs : PrefsResults, tokens : TokensResults, store : ExecResults,
     push : SendResults, email : SendResults, log : ExecResults,
     pushSender : BOOLEAN, emailSender : BOOLEAN]

InAppMessages == [UserID : Users, Type : {"translation_completed"},
                  Title : {"Translation Complete"}, ActionURL : ActionURLs]
PushMessages == [UserID : Users, Title : {"Translation Complete"}]
EmailMessages == [UserID : Users, Subject : {"Test"}]

\* "if msg.ActionURL != "" { n.ActionURL = &msg.ActionURL }"
OptionalString(s) == IF s = "" THEN Nil ELSE Ptr(s)

\* the notification.InAppNotification SendInApp builds from the message
NewInAppNotification(msg) ==
    [ID |-> 0, UserID |-> msg.UserID, Type |-> msg.Type, Title |-> msg.Title,
     ActionURL |-> OptionalString(msg.ActionURL), Read |-> FALSE, CreatedAt |-> 0]

\* NotificationRepo.Store: id and created_at are set, one INSERT
NotificationStore(tbl, n, t, err) ==
    IF err # Nil THEN [err |-> err, tbl |-> tbl]
    ELSE [err |-> Nil,
          tbl |-> Append(tbl, [n EXCEPT !.ID = Len(tbl) + 1, !.CreatedAt = t])]

InAppDisabled_failClosed(r) == r.err # Nil \/ ~r.prefs[1].InAppEnabled

\* "if err == nil && !prefs.InAppEnabled { return nil }"
InAppDisabled(r) == r.err = Nil /\ ~r.prefs[1].InAppEnabled

\* Service.SendInApp: the calls it makes, what it returns, the table after
SendInApp(msg, env, tbl, t) ==
    LET get == SvcCall("prefsRepo.Get", msg.UserID, env.prefs.err)
    IN  IF InAppDisabled(env.prefs)
        THEN [ret |-> Nil, calls |-> <<get>>, notifications |-> tbl]
        ELSE LET n == NewInAppNotification(msg)
                 st == NotificationStore(tbl, n, t, env.store)
             IN  [ret |-> IF st.err # Nil
                          THEN Wrap("Service - SendInApp - s.notificationRepo.Store", st.err)
                          ELSE Nil,
                  calls |-> <<get, SvcCall("notificationRepo.Store", n, st.err)>>,
                  notifications |-> st.tbl]

\* the notification.DeliveryLog logDelivery builds
NewDeliveryLog(notificationID, userID, channel, status, errMsg) ==
    [ID |-> 0, NotificationID |-> notificationID, UserID |-> userID,
     Channel |-> channel, Status |-> status, Attempts |-> 1,
     ErrorMessage |-> OptionalString(errMsg)]

\* DeliveryLogRepo.Store: id is set, one INSERT
DeliveryLogStore(tbl, log, err) ==
    IF err # Nil THEN [err |-> err, tbl |-> tbl]
    ELSE [err |-> Nil, tbl |-> Append(tbl, [log EXCEPT !.ID = Len(tbl) + 1])]

\* Service.logDelivery: one DeliveryLogRepo.Store, its error is dropped
logDelivery(tbl, env, userID, channel, status, errMsg) ==
    LET log == NewDeliveryLog(0, userID, channel, status, errMsg)
        st == DeliveryLogStore(tbl, log, env.log)
    IN  [calls |-> <<SvcCall("deliveryLogRepo.Store", log, st.err)>>,
         deliveryLogs |-> st.tbl]

PushDisabled_ignored(r) == FALSE

\* "if err == nil && !prefs.PushEnabled { return nil }"
PushDisabled(r) == r.err = Nil /\ ~r.prefs[1].PushEnabled

ActiveTokens_all(tokens) == [i \in 1..Len(tokens) |-> tokens[i].Token]

\* "if tokens[i].Active { tokenStrings = append(tokenStrings, tokens[i].Token) }"
ActiveTokens(tokens) ==
    LET act == SelectSeq(tokens, LAMBDA tk : tk.Active)
    IN  [i \in 1..Len(act) |-> act[i].Token]

\* the status logged after pushSender.Send returned
PushStatus(sendErr) == IF sendErr # Nil THEN "failed" ELSE "sent"

PushReturn_logErr(sendErr, logErr) ==
    IF sendErr # Nil THEN Wrap("Service - SendPush - s.pushSender.Send", sendErr)
    ELSE IF logErr # Nil THEN Wrap("Service - SendPush - s.deliveryLogRepo.Store", logErr)
    ELSE Nil

\* what SendPush returns after the send and the log write
PushReturn(sendErr, logErr) ==
    IF sendErr # Nil THEN Wrap("Service - SendPush - s.pushSender.Send", sendErr)
    ELSE Nil

\* Service.SendPush: the calls it makes, what it returns, the log table after
SendPush(msg, env, tbl) ==
    LET get == SvcCall("prefsRepo.Get", msg.UserID, env.prefs.err)
        lookup == SvcCall("pushTokenRepo.GetByUserID", msg.UserID, env.tokens.err)
        tokenStrings == ActiveTokens(env.tokens.tokens)
        noop(cs) == [ret |-> Nil, calls |-> cs, deliveryLogs |-> tbl]
    IN  IF PushDisabled(env.prefs) THEN noop(<<get>>)
        ELSE IF env.tokens.err # Nil
        THEN [ret |-> Wrap("Service - SendPush - s.pushTokenRepo.GetByUserID",
                           env.tokens.err),
              calls |-> <<get, lookup>>, deliveryLogs |-> tbl]
        ELSE IF Len(env.tokens.tokens) = 0 THEN noop(<<get, lookup>>)
        ELSE IF Len(tokenStrings) = 0 THEN noop(<<get, lookup>>)
        ELSE IF ~env.pushSender THEN noop(<<get, lookup>>)
        ELSE LET send == SvcCall("pushSender.Send", tokenStrings, env.push)
                 lg == logDelivery(tbl, env, msg.UserID, "push",
                                   PushStatus(env.push),
                                   IF env.push # Nil THEN env.push[1] ELSE "")
             IN  [ret |-> PushReturn(env.push, lg.calls[1].err),
                  calls |-> <<get, lookup, send>> \o lg.calls,
                  deliveryLogs |-> lg.deliveryLogs]

SendEmail_needsStore(msg, env, tbl) ==
    IF ~env.emailSender \/ env.store # Nil
    THEN [ret |-> env.store, calls |-> <<>>, deliveryLogs |-> tbl]
    ELSE [ret |-> IF env.email # Nil
                  THEN Wrap("Service - SendEmail - s.emailSender.Send", env.email)
                  ELSE Nil,
          calls |-> <<SvcCall("emailSender.Send", msg, env.email)>>,
          deliveryLogs |-> tbl]

\* Service.SendEmail: the calls it makes, what it returns, the log table after
SendEmail(msg, env, tbl) ==
    IF ~env.emailSender THEN [ret |-> Nil, calls |-> <<>>, deliveryLogs |-> tbl]
    ELSE [ret |-> IF env.email # Nil
                  THEN Wrap("Service - SendEmail - s.emailSender.Send", env.email)
                  ELSE Nil,
          calls |-> <<SvcCall("emailSender.Send", msg, env.email)>>,
          deliveryLogs |-> tbl]

NoSvc == [op |-> "none", msg |-> Nil, env |-> Nil, calls |-> <<>>, ret |-> Nil]

(* ---------------------------------------------------------------------- *)
(* FCM push sender (pkg/notify/fcm.go)                                     *)
(* ---------------------------------------------------------------------- *)
GatewayErrors == {"NotRegistered", "InvalidRegistration"}

\* the token lists a caller passes to SendWithResult
TokenArgs == UNION {[1..n -> Tokens] : n \in 0..MaxTokens}

\* fcmResult: a message id, or the error of that registration id
FcmResults == [MessageID : {"m"}, Error : {""}] \cup [MessageID : {""}, Error : GatewayErrors]

\* fcmResponse as json.Decode fills it from the body the gateway sent
FcmResponses ==
    [Success : 0..MaxTokens, Failure : 0..MaxTokens,
     Results : UNION {[1..n -> FcmResults] : n \in 0..MaxTokens}]

\* what client.Do and the decoding of the body may give
HttpOutcomes ==
    {[kind |-> k, body |-> Nil] : k \in {"transport error", "status 500", "bad body"}}
    \cup {[kind |-> "ok", body |-> Ptr(r)] : r \in FcmResponses}

\* positions of the results that carry an error, in order
FailedPositions(results) ==
    SelectSeq([i \in 1..Len(results) |-> i], LAMBDA i : results[i].Error # "")

FailedTokenAt_compact(tokens, failed, k) == tokens[k]

\* "Token: tokens[i]" for the k-th result with an error, i its position
FailedTokenAt(tokens, failed, k) == tokens[failed[k]]

\* "if fcmResp.Failure > 0 { for i, r := range fcmResp.Results { ... } }";
\* tokens[i] panics when i is not a position of tokens
FailedTokens(tokens, resp) ==
    LET failed == FailedPositions(resp.Results)
    IN  IF resp.Failure <= 0 THEN [panic |-> FALSE, list |-> <<>>]
        ELSE IF \E k \in 1..Len(failed) : failed[k] > Len(tokens)
        THEN [panic |-> TRUE, list |-> <<>>]
        ELSE [panic |-> FALSE,
              list |-> [k \in 1..Len(failed) |->
                           [Token |-> FailedTokenAt(tokens, failed, k),
                            Error |-> resp.Results[failed[k]].Error]]]

FCMSendResult(success, failure, failedTokens) ==
    [SuccessCount |-> success, FailureCount |-> failure, FailedTokens |-> failedTokens]

\* FCMSender.SendWithResult: the result, the error, or a panic
SendWithResult(tokens, http) ==
    IF Len(tokens) = 0
    THEN [result |-> Ptr(FCMSendResult(0, 0, <<>>)), err |-> Nil, panic |-> FALSE]
    ELSE IF http.kind = "transport error"
    THEN [result |-> Nil, err |-> Ptr("send request"), panic |-> FALSE]
    ELSE IF http.kind = "status 500"
    THEN [result |-> Nil, err |-> Ptr("fcm returned non-200 status: 500"), panic |-> FALSE]
    ELSE IF http.kind = "bad body"
    THEN [result |-> Nil, err |-> Ptr("decode response"), panic |-> FALSE]
    ELSE LET resp == http.body[1]
             ft == FailedTokens(tokens, resp)
         IN  IF ft.panic THEN [result |-> Nil, err |-> Nil, panic |-> TRUE]
             ELSE [result |-> Ptr(FCMSendResult(resp.Success, resp.Failure, ft.list)),
                   err |-> Nil, panic |-> FALSE]

NoFcm == [tokens |-> <<>>, http |-> Nil, result |-> Nil, err |-> Nil, panic |-> FALSE]

(* ---------------------------------------------------------------------- *)
(* Bus subscriber (pkg/eventbus/worker.go, RabbitMQSubscriber) and the     *)
(* notification worker that consumes its stream                            *)
(* ---------------------------------------------------------------------- *)
MaxMessages == 2

TypeTranslationCreated == "translation.created"
EventTypes == {TypeTranslationCreated, "user.created"}

\* event.TranslationCreatedPayload
TranslationCreatedPayloads == [TranslationID : {1}, UserID : Users]

\* message bodies: the JSON of a payload, or bytes that are no JSON
Bodies == {<<>>} \cup {Ptr(p) : p \in TranslationCreatedPayloads}

\* json.Unmarshal(e.Payload, &payload)
Unmarshal(body) ==
    IF body = <<>>
    THEN [err |-> Ptr("unexpected end of JSON input"), payload |-> Nil]
    ELSE [err |-> Nil, payload |-> Ptr(body[1])]

\* "events <- Event{ID: msg.MessageId, Type: msg.Type, Payload: msg.Body}"
EventOf(msg) == [ID |-> msg.MessageId, Type |-> msg.Type, Payload |-> msg.Body]

\* the InAppMessage handleTranslationCreated builds from the payload
TranslationCompleted(payload) ==
    [UserID |-> payload.UserID, Type |-> "translation_completed",
     Title |-> "Translation Complete", ActionURL |-> ""]

\* Worker.handleTranslationCreated: a payload that does not decode and a
\* SendInApp error are logged
handleTranslationCreated(e, env, tbl, t) ==
    LET u == Unmarshal(e.Payload)
    IN  IF u.err # Nil THEN [outcome |-> "bad payload", notifications |-> tbl]
        ELSE LET r == SendInApp(TranslationCompleted(u.payload[1]), env, tbl, t)
             IN  [outcome |-> IF r.ret # Nil THEN "send failed" ELSE "done",
                  notifications |-> r.notifications]

\* Worker.handleEvent: "switch e.Type"
handleEvent(e, env, tbl, t) ==
    IF e.Type = TypeTranslationCreated THEN handleTranslationCreated(e, env, tbl, t)
    ELSE [outcome |-> "unhandled type", notifications |-> tbl]

AfterHandle_fatal(outcome) == IF outcome = "done" THEN "select" ELSE "exited"

\* processEvents: handleEvent returns nothing, the for loop goes on
AfterHandle(outcome) == "select"

(* ---------------------------------------------------------------------- *)
(* Bus messages (pkg/eventbus/rabbitmq.go, RabbitMQPublisher)              *)
(* ---------------------------------------------------------------------- *)
MaxPublished == 2

\* the topic the notification worker subscribes to
TopicTranslation == "translation"

\* the words of a routing key, separated by dots
KeyWords(key) ==
    CASE key = "translation.created" -> <<"translation", "created">>
      [] key = "user.created" -> <<"user", "created">>

\* the events handed to Publish: any id, type and payload bytes
BusEvents ==
    {[NewOutboxEvent(id, 1) EXCEPT !.event_type = ty, !.payload = body] :
        id \in EventIds, ty \in EventTypes, body \in Bodies}

\* e.ID.String()
UUIDString(id) == ToString(id)

Publishing_untyped(e) ==
    [ContentType |-> "application/json", DeliveryMode |-> "persistent",
     MessageId |-> UUIDString(e.id), Type |-> "", Body |-> e.payload]

\* the amqp.Publishing RabbitMQPublisher.Publish builds
Publishing(e) ==
    [ContentType |-> "application/json", DeliveryMode |-> "persistent",
     MessageId |-> UUIDString(e.id), Type |-> e.event_type, Body |-> e.payload]

\* the binding of Subscribe, routingKey := topic + ".#": the keys whose first
\* word is the topic
BindingMatches(topic, key) == KeyWords(key)[1] = topic

\* the amqp.Delivery the broker makes of a published message
DeliveryOf(p) == [MessageId |-> p.MessageId, Type |-> p.Type, Body |-> p.Body]

\* nothing published yet
NoBus == [wire |-> <<>>, queue |-> <<>>, events |-> <<>>, n |-> 0]

(* ---------------------------------------------------------------------- *)
(* Log sampler (pkg/logger/sampler.go)                                     *)
(* ---------------------------------------------------------------------- *)
MaxRate == 2
MaxInterval == 2
MaxTime == 3
MaxCalls == 3

\* goroutines that call ShouldLog on the same Sampler
Callers == {"c1", "c2"}

\* a goroutine outside ShouldLog
Idle == [pc |-> "idle", now |-> 0, lastReset |-> 0]

\* no Sampler constructed yet; clock is time.Now().UnixNano(), granted the
\* number of calls that returned true since lastReset was last set, started
\* the number of calls of ShouldLog so far
NoSampler ==
    [made |-> FALSE, panicked |-> FALSE, rate |-> 0, interval |-> 0, counter |-> 0,
     lastReset |-> 0, clock |-> 0, granted |-> 0, started |-> 0,
     th |-> [c \in Callers |-> Idle]]

\* "if now-lastReset > s.interval.Nanoseconds()"
IntervalElapsed(s, t, last) == t - last > s.interval

\* "return count <= s.rate"
WithinRate(s, count) == count <= s.rate

(* ---------------------------------------------------------------------- *)
(* Table push_tokens and PushTokenRepo                                     *)
(* ---------------------------------------------------------------------- *)
Devices == {"d1", "d2"}

\* the row an INSERT into push_tokens writes: active is not in the column
\* list and takes its default, TRUE
PushTokenRow(t) ==
    [user_id |-> t.UserID, token |-> t.Token, device_id |-> t.DeviceID, active |-> TRUE]

\* ON CONFLICT (token) DO UPDATE SET user_id, platform, device_id, updated_at
PushTokenUpdate(row, t) ==
    [row EXCEPT !.user_id = t.UserID, !.device_id = t.DeviceID]

\* UNIQUE(user_id, device_id), for the row that position k is about to hold
DeviceTaken(tbl, k, t) ==
    \E i \in 1..Len(tbl) :
        i # k /\ tbl[i].user_id = t.UserID /\ tbl[i].device_id = t.DeviceID

\* PushTokenRepo.Store: one INSERT ... ON CONFLICT (token) DO UPDATE; err is
\* the error of Pool.Exec, if any
PushTokenStore(tbl, t, err) ==
    LET hit == {i \in 1..Len(tbl) : tbl[i].token = t.Token}
        k == IF hit = {} THEN Len(tbl) + 1 ELSE CHOOSE i \in hit : TRUE
        wrapped(e) == Wrap("PushTokenRepo - Store - r.Pool.Exec", e)
    IN  IF err # Nil THEN [err |-> wrapped(err), tbl |-> tbl]
        ELSE IF DeviceTaken(tbl, k, t)
        THEN [err |-> wrapped(Ptr("duplicate key")), tbl |-> tbl]
        ELSE IF hit = {}
        THEN [err |-> Nil, tbl |-> Append(tbl, PushTokenRow(t))]
        ELSE [err |-> Nil,
              tbl |-> [i \in 1..Len(tbl) |->
                          IF i \in hit THEN PushTokenUpdate(tbl[i], t) ELSE tbl[i]]]

\* PushTokenRepo.Delete: DELETE ... WHERE token = ?
PushTokenDelete(tbl, token) == SelectSeq(tbl, LAMBDA r : r.token # token)

\* rows.Scan of GetByUserID: the seven selected columns; active is not
\* selected, so Active keeps the zero value of bool
ScanPushToken(row) == [Token |-> row.token, Active |-> FALSE]

\* PushTokenRepo.GetByUserID: SELECT ... WHERE user_id = ?
PushTokenGetByUserID(tbl, userID, err) ==
    IF err # Nil
    THEN [tokens |-> <<>>, err |-> Ptr("PushTokenRepo - GetByUserID")]
    ELSE LET rows == SelectSeq(tbl, LAMBDA r : r.user_id = userID)
         IN  [tokens |-> [i \in 1..Len(rows) |-> ScanPushToken(rows[i])],
              err |-> Nil]

\* nothing stored, no call made yet
InitNotify ==
    /\ notifications = <<>>
    /\ deliveryLogs = <<>>
    /\ svc = NoSvc
    /\ fcm = NoFcm
    /\ msgs = <<>>
    /\ msgsClosed = FALSE
    /\ acked = {}
    /\ subPc = "new"
    /\ delivery = Nil
    /\ nwPc = "new"
    /\ nwEvent = Nil
    /\ handled = <<>>
    /\ bus = NoBus
    /\ sampler = NoSampler
    /\ pushTokens = <<>>

(* ---------------------------------------------------------------------- *)
(* Infrastructure: the database behind the pool, the broker, the clock     *)
(* ---------------------------------------------------------------------- *)
\* outcomes of one Pool.Exec / Pool.Query: a cancelled context fails the
\* call, otherwise the call may hit a transient infrastructure error
DbFaultChoices(cancelled) ==
    IF cancelled THEN {TRUE}
    ELSE IF dbFaults < MaxDbFaults THEN {FALSE, TRUE} ELSE {FALSE}

CountFault(fault, cancelled) ==
    IF fault /\ ~cancelled THEN dbFaults + 1 ELSE dbFaults

\* outcomes of Publisher.Publish: nil, or an error
PublishResults ==
    IF busUp /\ ~ctxDone THEN {Nil} ELSE {Nil} \cup {Ptr(m) : m \in PublishErrors}

NoCall == [op |-> "none", id |-> 0, arg |-> 0, err |-> Nil, rows |-> <<>>]

\* the state after NewOutboxRepo on an empty table and NewWorker(..., opts)
\* for the workers of act, with options from B and M; faults is the number
\* of infrastructure errors already spent
InitState(act, faults, B, M) ==
    /\ outbox = <<>>
    /\ now = 1
    /\ dbFaults = faults
    /\ ret = NoCall
    /\ active = act
    /\ \E b \in B : batchSize = [w \in Workers |-> b]
    /\ \E m \in M : maxRetries = [w \in Workers |-> m]
    /\ pc = [w \in Workers |-> "new"]
    /\ batch = [w \in Workers |-> <<>>]
    /\ idx = [w \in Workers |-> 0]
    /\ stop = [w \in Workers |-> FALSE]
    /\ done = [w \in Workers |-> FALSE]
    /\ stopPc = [w \in Workers |-> "none"]
    /\ calls = [w \in Workers |-> <<>>]
    /\ ctxDone = FALSE
    /\ busUp = FALSE
    /\ attempts = [id \in EventIds |-> <<>>]
    /\ InitNotify

\* one worker, transient store errors possible
Init == InitState({"w1"}, 0, 1..MaxBatchSize, 1..MaxMaxRetries)

\* one worker, the store fails only once the context is cancelled
InitStop == InitState({"w1"}, MaxDbFaults, 1..MaxBatchSize, 1..MaxMaxRetries)

\* no worker: the repository is called directly
InitRepo == InitState({}, 0, {MaxBatchSize}, {MaxMaxRetries})

\* time passes
Advance ==
    /\ now < MaxClock
    /\ now' = now + 1
    /\ UNCHANGED <<outbox, dbFaults, ret, workerVars, envVars, notifyVars>>

\* the broker becomes reachable for good
BusRecover ==
    /\ ~busUp
    /\ busUp' = TRUE
    /\ UNCHANGED <<repoVars, ret, workerVars, ctxDone, attempts, notifyVars>>

\* cancel() of the context given to Start
Cancel ==
    /\ ~ctxDone
    /\ ctxDone' = TRUE
    /\ UNCHANGED <<repoVars, ret, workerVars, busUp, attempts, notifyVars>>

\* the batches a caller may hand to OutboxRepo.Store
StoreInputs ==
    LET E == {NewOutboxEvent(id, t) : id \in EventIds, t \in 1..MaxCreatedAt}
    IN  UNION {[1..n -> E] : n \in 0..MaxStoreBatch}

\* a producer stores the event of a domain change under a fresh id
Produce(id, t) ==
    /\ id \notin DOMAIN outbox
    /\ outbox' = Store(outbox, <<NewOutboxEvent(id, t)>>, FALSE).tbl
    /\ UNCHANGED <<now, dbFaults, ret, workerVars, envVars, notifyVars>>

(* ---------------------------------------------------------------------- *)
(* The outbox worker                                                       *)
(* ---------------------------------------------------------------------- *)
Call(op, id, arg, err) == [op |-> op, id |-> id, arg |-> arg, err |-> err]

\* Worker.Start: go w.run(ctx)
Start(w) ==
    /\ w \in active
    /\ pc[w] = "new"
    /\ pc' = [pc EXCEPT ![w] = "select"]
    /\ UNCHANGED <<repoVars, ret, active, batchSize, maxRetries, batch, idx, stop, done, stopPc,
                   calls, envVars, notifyVars>>

\* run: case <-ticker.C
Tick(w) ==
    /\ pc[w] = "select"
    /\ pc' = [pc EXCEPT ![w] = "fetch"]
    /\ UNCHANGED <<repoVars, ret, active, batchSize, maxRetries, batch, idx, stop, done, stopPc,
                   calls, envVars, notifyVars>>

CanExit_midTick(w) == pc[w] \notin {"new", "exited"} /\ (ctxDone \/ stop[w])

\* the select of run is reached only between two ticks
CanExit(w) == pc[w] = "select" /\ (ctxDone \/ stop[w])

\* run: case <-ctx.Done() / case <-w.stop, then the deferred close(w.done)
Exit(w) ==
    /\ CanExit(w)
    /\ pc' = [pc EXCEPT ![w] = "exited"]
    /\ done' = [done EXCEPT ![w] = TRUE]
    /\ UNCHANGED <<repoVars, ret, active, batchSize, maxRetries, batch, idx, stop, stopPc, calls,
                   envVars, notifyVars>>

\* processOutbox: events, err := FetchUnpublished(ctx, batchSize)
Fetch(w) ==
    /\ pc[w] = "fetch"
    /\ \E fault \in DbFaultChoices(ctxDone) :
       \E r \in FetchUnpublished(outbox, batchSize[w], fault) :
          /\ dbFaults' = CountFault(fault, ctxDone)
          /\ calls' = [calls EXCEPT
                 ![w] = Append(@, Call("FetchUnpublished", 0, Nil, r.err))]
          /\ IF r.err # Nil
             THEN /\ pc' = [pc EXCEPT ![w] = "ret"]
                  /\ batch' = [batch EXCEPT ![w] = <<>>]
                  /\ idx' = [idx EXCEPT ![w] = 0]
             ELSE /\ pc' = [pc EXCEPT ![w] = "loop"]
                  /\ batch' = [batch EXCEPT ![w] = r.events]
                  /\ idx' = [idx EXCEPT ![w] = 1]
    /\ UNCHANGED <<outbox, now, ret, active, batchSize, maxRetries, stop, done, stopPc, envVars, notifyVars>>

SkipEvent_gt(w, e) == e.retry_count > maxRetries[w]

\* "if e.RetryCount >= w.maxRetries { ...; continue }"
SkipEvent(w, e) == e.retry_count >= maxRetries[w]

\* processOutbox: the dead-letter cutoff, the event is left in place
Skip(w) ==
    /\ pc[w] = "loop"
    /\ idx[w] <= Len(batch[w])
    /\ SkipEvent(w, batch[w][idx[w]])
    /\ idx' = [idx EXCEPT ![w] = @ + 1]
    /\ UNCHANGED <<repoVars, ret, active, batchSize, maxRetries, pc, batch, stop, done, stopPc,
                   calls, envVars, notifyVars>>

NextAfterPublish_ignoreErr(res) == "markPublished"

\* "if err := Publish(ctx, e); err != nil { MarkFailed ...; continue }",
\* else MarkPublished
NextAfterPublish(res) == IF res = Nil THEN "markPublished" ELSE "markFailed"

\* processOutbox: err := w.publisher.Publish(ctx, e)
Publish(w) ==
    /\ pc[w] = "loop"
    /\ idx[w] <= Len(batch[w])
    /\ ~SkipEvent(w, batch[w][idx[w]])
    /\ LET e == batch[w][idx[w]]
       IN  \E res \in PublishResults :
              /\ calls' = [calls EXCEPT
                     ![w] = Append(@, Call("Publish", e.id, Nil, res))]
              /\ attempts' = [attempts EXCEPT ![e.id] =
                     Append(@, [w |-> w, res |-> res, mark |-> "pending"])]
              /\ pc' = [pc EXCEPT ![w] = NextAfterPublish(res)]
    /\ UNCHANGED <<repoVars, ret, active, batchSize, maxRetries, batch, idx, stop, done, stopPc,
                   ctxDone, busUp, notifyVars>>

\* the store write that follows the Publish call of worker w is recorded
SettleAttempt(h, w, outcome) ==
    [i \in 1..Len(h) |->
        IF h[i].w = w /\ h[i].mark = "pending"
        THEN [h[i] EXCEPT !.mark = outcome] ELSE h[i]]

AfterMarkFailed_break(w, markErr) == Len(batch[w]) + 1

\* a MarkFailed error is logged, then "continue": the loop goes on with the
\* next event
AfterMarkFailed(w, markErr) == idx[w] + 1

AfterMarkPublished_abort(w, markErr) ==
    IF markErr = Nil THEN idx[w] + 1 ELSE Len(batch[w]) + 1

\* a MarkPublished error is logged, the loop goes on with the next event
AfterMarkPublished(w, markErr) == idx[w] + 1

\* processOutbox: Publish failed, MarkFailed(ctx, e.ID, err)
DoMarkFailed(w) ==
    /\ pc[w] = "markFailed"
    /\ LET e == batch[w][idx[w]]
           pubErr == calls[w][Len(calls[w])].err
       IN  \E fault \in DbFaultChoices(ctxDone) :
              LET r == MarkFailed(outbox, e.id, pubErr[1], fault)
              IN  /\ outbox' = r.tbl
                  /\ dbFaults' = CountFault(fault, ctxDone)
                  /\ calls' = [calls EXCEPT
                         ![w] = Append(@, Call("MarkFailed", e.id, pubErr, r.err))]
                  /\ attempts' = [attempts EXCEPT ![e.id] =
                         SettleAttempt(@, w, IF r.err = Nil THEN "ok" ELSE "err")]
                  /\ idx' = [idx EXCEPT ![w] = AfterMarkFailed(w, r.err)]
    /\ pc' = [pc EXCEPT ![w] = "loop"]
    /\ UNCHANGED <<now, ret, active, batchSize, maxRetries, batch, stop, done, stopPc, ctxDone, busUp, notifyVars>>

\* processOutbox: Publish succeeded, MarkPublished(ctx, e.ID)
DoMarkPublished(w) ==
    /\ pc[w] = "markPublished"
    /\ LET e == batch[w][idx[w]]
       IN  \E fault \in DbFaultChoices(ctxDone) :
              LET r == MarkPublished(outbox, e.id, now, fault)
              IN  /\ outbox' = r.tbl
                  /\ dbFaults' = CountFault(fault, ctxDone)
                  /\ calls' = [calls EXCEPT
                         ![w] = Append(@, Call("MarkPublished", e.id, Nil, r.err))]
                  /\ attempts' = [attempts EXCEPT ![e.id] =
                         SettleAttempt(@, w, IF r.err = Nil THEN "ok" ELSE "err")]
                  /\ idx' = [idx EXCEPT ![w] = AfterMarkPublished(w, r.err)]
    /\ pc' = [pc EXCEPT ![w] = "loop"]
    /\ UNCHANGED <<now, ret, active, batchSize, maxRetries, batch, stop, done, stopPc, ctxDone, busUp, notifyVars>>

\* processOutbox: the range loop is over, "return nil"
LoopEnd(w) ==
    /\ pc[w] = "loop"
    /\ idx[w] > Len(batch[w])
    /\ pc' = [pc EXCEPT ![w] = "ret"]
    /\ UNCHANGED <<repoVars, ret, active, batchSize, maxRetries, batch, idx, stop, done, stopPc,
                   calls, envVars, notifyVars>>

\* run: processOutbox has returned (its error, if any, is logged), back to
\* the select
Return(w) ==
    /\ pc[w] = "ret"
    /\ pc' = [pc EXCEPT ![w] = "select"]
    /\ batch' = [batch EXCEPT ![w] = <<>>]
    /\ idx' = [idx EXCEPT ![w] = 0]
    /\ calls' = [calls EXCEPT ![w] = <<>>]
    /\ UNCHANGED <<repoVars, ret, active, batchSize, maxRetries, stop, done, stopPc, envVars, notifyVars>>

\* Worker.Stop: close(w.stop)
StopCall(w) ==
    /\ w \in active
    /\ stopPc[w] = "none"
    /\ stop' = [stop EXCEPT ![w] = TRUE]
    /\ stopPc' = [stopPc EXCEPT ![w] = "waiting"]
    /\ UNCHANGED <<repoVars, ret, active, batchSize, maxRetries, pc, batch, idx, done, calls, envVars, notifyVars>>

\* Worker.Stop: <-w.done, then return
StopReturn(w) ==
    /\ stopPc[w] = "waiting"
    /\ done[w]
    /\ stopPc' = [stopPc EXCEPT ![w] = "returned"]
    /\ UNCHANGED <<repoVars, ret, active, batchSize, maxRetries, pc, batch, idx, stop, done, calls,
                   envVars, notifyVars>>

(* ---------------------------------------------------------------------- *)
(* Direct calls of the repository                                          *)
(* ---------------------------------------------------------------------- *)
Ids(events) == [i \in 1..Len(events) |-> events[i].id]

\* OutboxRepo.Store(ctx, events)
CallStore(events) ==
    /\ \E fault \in DbFaultChoices(FALSE) :
          LET r == Store(outbox, events, fault)
          IN  /\ outbox' = r.tbl
              /\ dbFaults' = IF Len(events) = 0 THEN dbFaults
                             ELSE CountFault(fault, FALSE)
              /\ ret' = [op |-> "Store", id |-> 0, arg |-> Len(events),
                         err |-> r.err, rows |-> Ids(events)]
    /\ UNCHANGED <<now, workerVars, envVars, notifyVars>>

\* OutboxRepo.FetchUnpublished(ctx, limit)
CallFetchUnpublished(limit) ==
    /\ \E fault \in DbFaultChoices(FALSE) :
       \E r \in FetchUnpublished(outbox, limit, fault) :
          /\ dbFaults' = CountFault(fault, FALSE)
          /\ ret' = [op |-> "FetchUnpublished", id |-> 0, arg |-> limit,
                     err |-> r.err, rows |-> r.events]
    /\ UNCHANGED <<outbox, now, workerVars, envVars, notifyVars>>

\* OutboxRepo.MarkPublished(ctx, id)
CallMarkPublished(id) ==
    /\ \E fault \in DbFaultChoices(FALSE) :
          LET r == MarkPublished(outbox, id, now, fault)
          IN  /\ outbox' = r.tbl
              /\ dbFaults' = CountFault(fault, FALSE)
              /\ ret' = [op |-> "MarkPublished", id |-> id, arg |-> now,
                         err |-> r.err, rows |-> <<>>]
    /\ UNCHANGED <<now, workerVars, envVars, notifyVars>>

\* OutboxRepo.MarkFailed(ctx, id, errors.New(msg))
CallMarkFailed(id, msg) ==
    /\ id \in DOMAIN outbox => outbox[id].retry_count < MaxRetryCount
    /\ \E fault \in DbFaultChoices(FALSE) :
          LET r == MarkFailed(outbox, id, msg, fault)
          IN  /\ outbox' = r.tbl
              /\ dbFaults' = CountFault(fault, FALSE)
              /\ ret' = [op |-> "MarkFailed", id |-> id, arg |-> msg,
                         err |-> r.err, rows |-> <<>>]
    /\ UNCHANGED <<now, workerVars, envVars, notifyVars>>

(* ---------------------------------------------------------------------- *)
(* Calls of the notification dispatch service                              *)
(* ---------------------------------------------------------------------- *)
\* an environment in which every collaborator answers without error
QuietEnv ==
    [prefs |-> [prefs |-> Ptr([EmailEnabled |-> TRUE, PushEnabled |-> TRUE,
                               InAppEnabled |-> TRUE]), err |-> Nil],
     tokens |-> [tokens |-> <<>>, err |-> Nil], store |-> Nil, push |-> Nil,
     email |-> Nil, log |-> Nil, pushSender |-> TRUE, emailSender |-> TRUE]

\* the answers of the preference lookup that differ in one channel's toggle
PrefsFor(channel) ==
    {r \in PrefsResults :
        r.err = Nil => \A c \in {"EmailEnabled", "PushEnabled", "InAppEnabled"} \ {channel} :
                          r.prefs[1][c]}

\* the collaborators called (made) answer as env says, and a collaborator that is
\* not called gives no answer (its entry is that of QuietEnv); the stored
\* preferences and the configured senders are there whether used or not
Answers(env, made) ==
    LET asked(op) == \E i \in 1..Len(made) : made[i].op = op
    IN  /\ asked("pushTokenRepo.GetByUserID") \/ env.tokens = QuietEnv.tokens
        /\ asked("notificationRepo.Store") \/ env.store = Nil
        /\ asked("pushSender.Send") \/ env.push = Nil
        /\ asked("emailSender.Send") \/ env.email = Nil
        /\ asked("deliveryLogRepo.Store") \/ env.log = Nil

InAppEnvs ==
    {e \in {[QuietEnv EXCEPT !.prefs = p, !.store = s] :
                p \in PrefsFor("InAppEnabled"), s \in ExecResults} :
        \A msg \in InAppMessages : Answers(e, SendInApp(msg, e, <<>>, 0).calls)}

PushEnvs ==
    {e \in {[QuietEnv EXCEPT !.prefs = p, !.tokens = t, !.push = s, !.log = l,
                             !.pushSender = c] :
                p \in PrefsFor("PushEnabled"), t \in TokensResults,
                s \in SendResults, l \in ExecResults, c \in BOOLEAN} :
        \A msg \in PushMessages : Answers(e, SendPush(msg, e, <<>>).calls)}

EmailEnvs ==
    {e \in {[QuietEnv EXCEPT !.prefs = p, !.email = s, !.log = l,
                             !.emailSender = c] :
                p \in PrefsFor("EmailEnabled"), s \in SendResults,
                l \in ExecResults, c \in BOOLEAN} :
        \A msg \in EmailMessages : Answers(e, SendEmail(msg, e, <<>>).calls)}

\* Service.SendInApp(ctx, msg)
CallSendInApp(msg, env) ==
    /\ Len(notifications) < MaxNotifications
    /\ LET r == SendInApp(msg, env, notifications, now)
       IN  /\ notifications' = r.notifications
           /\ svc' = [op |-> "SendInApp", msg |-> msg, env |-> env,
                      calls |-> r.calls, ret |-> r.ret]
    /\ UNCHANGED <<repoVars, ret, workerVars, envVars, deliveryLogs, fcm, auxVars, subVars>>

\* Service.SendPush(ctx, msg)
CallSendPush(msg, env) ==
    /\ Len(deliveryLogs) < MaxDeliveryLogs
    /\ LET r == SendPush(msg, env, deliveryLogs)
       IN  /\ deliveryLogs' = r.deliveryLogs
           /\ svc' = [op |-> "SendPush", msg |-> msg, env |-> env,
                      calls |-> r.calls, ret |-> r.ret]
    /\ UNCHANGED <<repoVars, ret, workerVars, envVars, notifications, fcm, auxVars, subVars>>

\* Service.SendEmail(ctx, msg)
CallSendEmail(msg, env) ==
    /\ Len(deliveryLogs) < MaxDeliveryLogs
    /\ LET r == SendEmail(msg, env, deliveryLogs)
       IN  /\ deliveryLogs' = r.deliveryLogs
           /\ svc' = [op |-> "SendEmail", msg |-> msg, env |-> env,
                      calls |-> r.calls, ret |-> r.ret]
    /\ UNCHANGED <<repoVars, ret, workerVars, envVars, notifications, fcm, auxVars, subVars>>

(* ---------------------------------------------------------------------- *)
(* Calls of the FCM sender                                                 *)
(* ---------------------------------------------------------------------- *)
\* FCMSender.SendWithResult(ctx, msg, tokens), the gateway answering http;
\* the sender keeps nothing from one call to the next, so a behaviour makes
\* one call
CallSendWithResult(tokens, http) ==
    /\ fcm = NoFcm
    /\ LET r == SendWithResult(tokens, http)
       IN  fcm' = [tokens |-> tokens, http |-> http, result |-> r.result,
                   err |-> r.err, panic |-> r.panic]
    /\ UNCHANGED <<repoVars, ret, workerVars, envVars, svcVars, subVars, auxVars>>

(* ---------------------------------------------------------------------- *)
(* The subscriber goroutine and the notification worker                    *)
(* ---------------------------------------------------------------------- *)
\* number of deliveries the subscriber goroutine has taken from msgs
Taken == IF delivery = Nil THEN 0 ELSE delivery[1].MessageId

\* notification Worker.Start: bus.Subscribe (queue bind and consume, either
\* may fail), then "go w.processEvents(ctx, eventsCh)"
NotifyStart ==
    /\ nwPc = "new" /\ subPc = "new"
    /\ \E ok \in BOOLEAN :
          /\ subPc' = IF ok THEN "select" ELSE "failed"
          /\ nwPc' = IF ok THEN "select" ELSE "failed"
    /\ UNCHANGED <<repoVars, ret, workerVars, envVars, svcVars, fcm, auxVars, msgs, msgsClosed,
                   acked, delivery, nwEvent, handled>>

\* the broker sends the next message of the queue to the consumer
Deliver(type, body) ==
    /\ subPc \notin {"new", "failed"}
    /\ ~msgsClosed
    /\ Len(msgs) < MaxMessages
    /\ msgs' = Append(msgs, [MessageId |-> Len(msgs) + 1, Type |-> type, Body |-> body])
    /\ UNCHANGED <<repoVars, ret, workerVars, envVars, svcVars, fcm, auxVars, msgsClosed, acked,
                   subPc, delivery, nwPc, nwEvent, handled>>

\* the broker closes the delivery stream
CloseStream ==
    /\ subPc \notin {"new", "failed"}
    /\ ~msgsClosed
    /\ msgsClosed' = TRUE
    /\ UNCHANGED <<repoVars, ret, workerVars, envVars, svcVars, fcm, auxVars, msgs, acked, subPc,
                   delivery, nwPc, nwEvent, handled>>

\* Subscribe goroutine: "case msg, ok := <-msgs" with a message
SubReceive ==
    /\ subPc = "select"
    /\ Taken < Len(msgs)
    /\ delivery' = Ptr(msgs[Taken + 1])
    /\ subPc' = "send"
    /\ UNCHANGED <<repoVars, ret, workerVars, envVars, svcVars, fcm, auxVars, msgs, msgsClosed,
                   acked, nwPc, nwEvent, handled>>

\* Subscribe goroutine: "case <-ctx.Done()" or msgs closed, return and the
\* deferred close(events)
SubExit ==
    /\ subPc = "select"
    /\ ctxDone \/ (msgsClosed /\ Taken = Len(msgs))
    /\ subPc' = "exited"
    /\ UNCHANGED <<repoVars, ret, workerVars, envVars, svcVars, fcm, auxVars, msgs, msgsClosed,
                   acked, delivery, nwPc, nwEvent, handled>>

\* the send on the unbuffered channel events meets the receive of
\* processEvents: "events <- Event{...}" and "case e, ok := <-events"
HandOff ==
    /\ subPc = "send"
    /\ nwPc = "select"
    /\ nwEvent' = Ptr(EventOf(delivery[1]))
    /\ nwPc' = "handle"
    /\ subPc' = "ack"
    /\ UNCHANGED <<repoVars, ret, workerVars, envVars, svcVars, fcm, auxVars, msgs, msgsClosed,
                   acked, delivery, handled>>

\* Subscribe goroutine: msg.Ack(false), its error is dropped
Ack ==
    /\ subPc = "ack"
    /\ \E ok \in BOOLEAN :
          acked' = IF ok THEN acked \cup {delivery[1].MessageId} ELSE acked
    /\ subPc' = "select"
    /\ UNCHANGED <<repoVars, ret, workerVars, envVars, svcVars, fcm, auxVars, msgs, msgsClosed,
                   delivery, nwPc, nwEvent, handled>>

\* processEvents: w.handleEvent(ctx, e), run to its return
HandleEvent ==
    /\ nwPc = "handle"
    /\ \E env \in InAppEnvs :
          LET r == handleEvent(nwEvent[1], env, notifications, now)
          IN  /\ notifications' = r.notifications
              /\ handled' = Append(handled, [id |-> nwEvent[1].ID,
                                             type |-> nwEvent[1].Type,
                                             outcome |-> r.outcome])
              /\ nwPc' = AfterHandle(r.outcome)
    /\ UNCHANGED <<repoVars, ret, workerVars, envVars, deliveryLogs, svc, fcm, auxVars, msgs,
                   msgsClosed, acked, subPc, delivery, nwEvent>>

\* processEvents: "case <-ctx.Done()" or events closed, return
NwExit ==
    /\ nwPc = "select"
    /\ ctxDone \/ subPc = "exited"
    /\ nwPc' = "exited"
    /\ UNCHANGED <<repoVars, ret, workerVars, envVars, svcVars, fcm, auxVars, msgs, msgsClosed,
                   acked, subPc, delivery, nwEvent, handled>>

(* ---------------------------------------------------------------------- *)
(* A message from the publisher to the subscriber's stream                 *)
(* ---------------------------------------------------------------------- *)
\* RabbitMQPublisher.Publish(ctx, e): PublishWithContext on the exchange
\* with routing key e.EventType; the call may fail
BusPublish(e) ==
    /\ bus.n < MaxPublished
    /\ \E ok \in BOOLEAN :
          bus' = [bus EXCEPT
                    !.n = @ + 1,
                    !.wire = IF ok
                             THEN Append(@, [key |-> e.event_type,
                                             msg |-> Publishing(e), event |-> e])
                             ELSE @]
    /\ UNCHANGED <<repoVars, ret, workerVars, envVars, svcVars, fcm, subVars, sampler,
                   pushTokens>>

\* the exchange routes the message to the queue bound by
\* Subscribe(TopicTranslation), or drops it when no binding matches
BusRoute ==
    /\ bus.wire # <<>>
    /\ LET x == Head(bus.wire)
       IN  bus' = [bus EXCEPT
                     !.wire = Tail(@),
                     !.queue = IF BindingMatches(TopicTranslation, x.key)
                               THEN Append(@, [d |-> DeliveryOf(x.msg),
                                               event |-> x.event])
                               ELSE @]
    /\ UNCHANGED <<repoVars, ret, workerVars, envVars, svcVars, fcm, subVars, sampler,
                   pushTokens>>

\* the goroutine of Subscribe takes the delivery and sends its Event on the
\* stream
BusDeliver ==
    /\ bus.queue # <<>>
    /\ LET y == Head(bus.queue)
       IN  bus' = [bus EXCEPT
                     !.queue = Tail(@),
                     !.events = Append(@, [ev |-> EventOf(y.d), event |-> y.event])]
    /\ UNCHANGED <<repoVars, ret, workerVars, envVars, svcVars, fcm, subVars, sampler,
                   pushTokens>>

(* ---------------------------------------------------------------------- *)
(* Sampler.ShouldLog, one atomic operation per step                        *)
(* ---------------------------------------------------------------------- *)
\* NewSampler(rate, interval): panics unless both are positive
NewSampler(rate, interval) ==
    /\ ~sampler.made /\ ~sampler.panicked
    /\ sampler' = IF rate <= 0 \/ interval <= 0
                  THEN [sampler EXCEPT !.panicked = TRUE]
                  ELSE [sampler EXCEPT !.made = TRUE, !.rate = rate,
                                       !.interval = interval,
                                       !.lastReset = sampler.clock]
    /\ UNCHANGED <<repoVars, ret, workerVars, envVars, svcVars, fcm, subVars, bus,
                   pushTokens>>

\* the wall clock moves on
SamplerClock ==
    /\ sampler.made
    /\ sampler.clock < MaxTime
    /\ sampler' = [sampler EXCEPT !.clock = @ + 1]
    /\ UNCHANGED <<repoVars, ret, workerVars, envVars, svcVars, fcm, subVars, bus,
                   pushTokens>>

\* ShouldLog: now := time.Now().UnixNano()
ReadNow(c) ==
    /\ sampler.made
    /\ sampler.th[c].pc = "idle"
    /\ sampler.started < MaxCalls
    /\ sampler' = [sampler EXCEPT !.started = @ + 1,
                                  !.th[c] = [pc |-> "load", now |-> sampler.clock,
                                             lastReset |-> 0]]
    /\ UNCHANGED <<repoVars, ret, workerVars, envVars, svcVars, fcm, subVars, bus,
                   pushTokens>>

\* ShouldLog: lastReset := s.lastReset.Load(), then the interval test
LoadLastReset(c) ==
    /\ sampler.th[c].pc = "load"
    /\ sampler' = [sampler EXCEPT
                     !.th[c].lastReset = sampler.lastReset,
                     !.th[c].pc = IF IntervalElapsed(sampler, sampler.th[c].now,
                                                     sampler.lastReset)
                                  THEN "cas" ELSE "add"]
    /\ UNCHANGED <<repoVars, ret, workerVars, envVars, svcVars, fcm, subVars, bus,
                   pushTokens>>

\* ShouldLog: s.lastReset.CompareAndSwap(lastReset, now)
CompareAndSwap(c) ==
    /\ sampler.th[c].pc = "cas"
    /\ sampler' = IF sampler.lastReset = sampler.th[c].lastReset
                  THEN [sampler EXCEPT !.lastReset = sampler.th[c].now,
                                       !.granted = 0,
                                       !.th[c].pc = "store"]
                  ELSE [sampler EXCEPT !.th[c].pc = "add"]
    /\ UNCHANGED <<repoVars, ret, workerVars, envVars, svcVars, fcm, subVars, bus,
                   pushTokens>>

\* ShouldLog: s.counter.Store(0)
StoreZero(c) ==
    /\ sampler.th[c].pc = "store"
    /\ sampler' = [sampler EXCEPT !.counter = 0, !.th[c].pc = "add"]
    /\ UNCHANGED <<repoVars, ret, workerVars, envVars, svcVars, fcm, subVars, bus,
                   pushTokens>>

\* ShouldLog: count := s.counter.Add(1); return count <= s.rate
AddAndReturn(c) ==
    /\ sampler.th[c].pc = "add"
    /\ LET count == sampler.counter + 1
       IN  sampler' = [sampler EXCEPT
                         !.counter = count,
                         !.granted = IF WithinRate(sampler, count) THEN @ + 1 ELSE @,
                         !.th[c] = Idle]
    /\ UNCHANGED <<repoVars, ret, workerVars, envVars, svcVars, fcm, subVars, bus,
                   pushTokens>>

(* ---------------------------------------------------------------------- *)
(* Push tokens: registration, deletion, and SendPush on the stored tokens  *)
(* ---------------------------------------------------------------------- *)
\* PushTokenRepo.Store(ctx, token) for a device of a user
TokenStore(userID, token, device) ==
    /\ \E err \in ExecResults :
          pushTokens' = PushTokenStore(pushTokens,
                            [UserID |-> userID, Token |-> token, DeviceID |-> device],
                            err).tbl
    /\ UNCHANGED <<repoVars, ret, workerVars, envVars, svcVars, fcm, subVars, bus, sampler>>

\* PushTokenRepo.Delete(ctx, token)
TokenDelete(token) ==
    /\ pushTokens' = PushTokenDelete(pushTokens, token)
    /\ UNCHANGED <<repoVars, ret, workerVars, envVars, svcVars, fcm, subVars, bus, sampler>>

\* Service.SendPush(ctx, msg) with PushTokenRepo as its token repository
SendPushStored(msg) ==
    /\ Len(deliveryLogs) < MaxDeliveryLogs
    /\ \E p \in PrefsFor("PushEnabled"), q \in ExecResults, s \in SendResults,
          l \in ExecResults, c \in BOOLEAN :
          LET env == [QuietEnv EXCEPT
                         !.prefs = p,
                         !.tokens = PushTokenGetByUserID(pushTokens, msg.UserID, q),
                         !.push = s, !.log = l, !.pushSender = c]
              r == SendPush(msg, env, deliveryLogs)
          IN  /\ Answers([env EXCEPT !.tokens = QuietEnv.tokens], r.calls)
              /\ deliveryLogs' = r.deliveryLogs
              /\ svc' = [op |-> "SendPush", msg |-> msg, env |-> env,
                         calls |-> r.calls, ret |-> r.ret]
    /\ UNCHANGED <<repoVars, ret, workerVars, envVars, notifications, fcm, subVars, bus,
                   sampler, pushTokens>>

(* ---------------------------------------------------------------------- *)
(* Specifications                                                          *)
(* ---------------------------------------------------------------------- *)
\* the worker polling a store that producers fill, with an unreliable
\* broker and an unreliable database
Next ==
    \/ BusRecover
    \/ \E id \in EventIds, t \in 1..MaxCreatedAt : Produce(id, t)
    \/ \E w \in Workers : Start(w)
    \/ \E w \in Workers : Tick(w)
    \/ \E w \in Workers : Fetch(w)
    \/ \E w \in Workers : Skip(w)
    \/ \E w \in Workers : Publish(w)
    \/ \E w \in Workers : DoMarkFailed(w)
    \/ \E w \in Workers : DoMarkPublished(w)
    \/ \E w \in Workers : LoopEnd(w)
    \/ \E w \in Workers : Return(w)

Spec == Init /\ [][Next]_vars

\* the same, with cancellation of the context and Stop()
NextStop ==
    \/ Next
    \/ Cancel
    \/ \E w \in Workers : Exit(w)
    \/ \E w \in Workers : StopCall(w)
    \/ \E w \in Workers : StopReturn(w)

SpecStop == InitStop /\ [][NextStop]_vars

\* callers that write batches and read the unpublished events back
NextRepo ==
    \/ \E events \in StoreInputs : CallStore(events)
    \/ \E limit \in Limits : CallFetchUnpublished(limit)
    \/ \E id \in EventIds : CallMarkPublished(id)

SpecRepo == InitRepo /\ [][NextRepo]_vars

\* callers that mark stored events, at any time and in any order
NextMark ==
    \/ Advance
    \/ \E id \in EventIds, t \in 1..MaxCreatedAt : Produce(id, t)
    \/ \E id \in EventIds : CallMarkPublished(id)
    \/ \E id \in EventIds, msg \in ErrorMsgs : CallMarkFailed(id, msg)

SpecMark == InitRepo /\ [][NextMark]_vars

\* callers of the dispatch service, with collaborators that may fail
NextService ==
    \/ \E msg \in InAppMessages, env \in InAppEnvs : CallSendInApp(msg, env)
    \/ \E msg \in PushMessages, env \in PushEnvs : CallSendPush(msg, env)
    \/ \E msg \in EmailMessages, env \in EmailEnvs : CallSendEmail(msg, env)

SpecService == InitRepo /\ [][NextService]_vars

\* callers of the FCM sender, with a gateway that answers anything
NextFCM ==
    \E tokens \in TokenArgs, http \in HttpOutcomes : CallSendWithResult(tokens, http)

SpecFCM == InitRepo /\ [][NextFCM]_vars

\* the broker, the subscriber goroutine and the notification worker
NextNotify ==
    \/ Cancel
    \/ NotifyStart
    \/ \E type \in EventTypes, body \in Bodies : Deliver(type, body)
    \/ CloseStream
    \/ SubReceive
    \/ SubExit
    \/ HandOff
    \/ Ack
    \/ HandleEvent
    \/ NwExit

SpecNotify == InitRepo /\ [][NextNotify]_vars

\* both goroutines are scheduled: a select with a ready case is taken, a
\* send or a receive that can complete does, a call returns
NotifyFairness ==
    /\ WF_vars(SubReceive)
    /\ WF_vars(SubExit)
    /\ WF_vars(HandOff)
    /\ WF_vars(Ack)
    /\ WF_vars(HandleEvent)
    /\ WF_vars(NwExit)

LiveNotify == InitRepo /\ [][NextNotify]_vars /\ NotifyFairness

\* two worker instances polling the same store, each with a batch size and
\* a retry limit of one, on an unreliable broker and database
InitMulti == InitState(Workers, 0, {1}, {1})

SpecMulti == InitMulti /\ [][Next]_vars

\* the first call of a Service method after NewService, whatever every
\* collaborator and every sender does, configured or not
FirstSendInApp ==
    /\ svc = NoSvc
    /\ \E msg \in InAppMessages, env \in Envs : CallSendInApp(msg, env)

FirstSendPush ==
    /\ svc = NoSvc
    /\ \E msg \in PushMessages, env \in Envs : CallSendPush(msg, env)

FirstSendEmail ==
    /\ svc = NoSvc
    /\ \E msg \in EmailMessages, env \in Envs : CallSendEmail(msg, env)

NextIsolation == FirstSendInApp \/ FirstSendPush \/ FirstSendEmail

SpecIsolation == InitRepo /\ [][NextIsolation]_vars

\* events published on the exchange and delivered to the subscriber
NextBus ==
    \/ \E e \in BusEvents : BusPublish(e)
    \/ BusRoute
    \/ BusDeliver

SpecBus == InitRepo /\ [][NextBus]_vars

\* goroutines sharing one Sampler
NextSampler ==
    \/ \E rate \in 0..MaxRate, interval \in 0..MaxInterval : NewSampler(rate, interval)
    \/ SamplerClock
    \/ \E c \in Callers : ReadNow(c)
    \/ \E c \in Callers : LoadLastReset(c)
    \/ \E c \in Callers : CompareAndSwap(c)
    \/ \E c \in Callers : StoreZero(c)
    \/ \E c \in Callers : AddAndReturn(c)

SpecSampler == InitRepo /\ [][NextSampler]_vars

\* devices register and drop their tokens while pushes are sent
NextTokens ==
    \/ \E u \in Users, t \in Tokens, d \in Devices : TokenStore(u, t, d)
    \/ \E t \in Tokens : TokenDelete(t)
    \/ \E msg \in PushMessages : SendPushStored(msg)

SpecTokens == InitRepo /\ [][NextTokens]_vars

\* the run goroutine is scheduled, the ticker keeps firing, and the broker
\* eventually accepts publishes
Fairness ==
    /\ WF_vars(BusRecover)
    /\ \A w \in Workers :
          /\ WF_vars(Start(w))
          /\ WF_vars(Tick(w))
          /\ WF_vars(Fetch(w))
          /\ WF_vars(Skip(w))
          /\ WF_vars(Publish(w))
          /\ WF_vars(DoMarkFailed(w))
          /\ WF_vars(DoMarkPublished(w))
          /\ WF_vars(LoopEnd(w))
          /\ WF_vars(Return(w))

LiveSpec == Init /\ [][Next]_vars /\ Fairness

(* ---------------------------------------------------------------------- *)
(* Properties of one tick of processOutbox                                 *)
(* ---------------------------------------------------------------------- *)
MarkOps == {"MarkPublished", "MarkFailed"}

\* positions of the calls op(id) in the current tick of worker w
CallsAt(w, ops, id) ==
    {i \in 1..Len(calls[w]) : calls[w][i].op \in ops /\ calls[w][i].id = id}

\* processOutbox of w has run to its "return nil"
TickDone(w) == pc[w] = "ret" /\ calls[w][1].err = Nil

BelowCeiling(w, e) == e.retry_count < maxRetries[w]

\* this step of w is a publisher or store call for event id
CalledFor(w, id) ==
    /\ Len(calls'[w]) = Len(calls[w]) + 1
    /\ calls'[w][Len(calls'[w])].id = id

\* C2: an event that has reached the retry ceiling is never passed to
\* Publish, MarkPublished or MarkFailed, in any tick, and its row stays as
\* it is: unpublished, in place.
C2_RetryCeiling ==
    [][\A w \in active : \A id \in DOMAIN outbox :
          (outbox[id].published_at = Nil
              /\ outbox[id].retry_count >= maxRetries[w])
          => (~CalledFor(w, id) /\ outbox'[id] = outbox[id])]_vars

\* a tick is over whose batch held an event at the ceiling, and no call was
\* made for it
C2_Witness ==
    \E w \in active :
        /\ TickDone(w)
        /\ \E j \in 1..Len(batch[w]) :
              /\ batch[w][j].retry_count >= maxRetries[w]
              /\ CallsAt(w, MarkOps \cup {"Publish"}, batch[w][j].id) = {}

\* C3: when Publish failed for an event of the batch, every later event of
\* the batch is still dispatched in the same tick, and a later event whose
\* Publish succeeded gets its MarkPublished in that tick.
C3_BatchIsolation ==
    \A w \in active :
        TickDone(w) =>
            \A a \in 1..Len(batch[w]), b \in 1..Len(batch[w]) :
                (/\ a < b
                 /\ \E i \in CallsAt(w, {"Publish"}, batch[w][a].id) :
                        calls[w][i].err # Nil)
                => LET B == batch[w][b]
                   IN  /\ BelowCeiling(w, B)
                            => CallsAt(w, {"Publish"}, B.id) # {}
                       /\ \A i \in CallsAt(w, {"Publish"}, B.id) :
                            calls[w][i].err = Nil
                            => i + 1 \in CallsAt(w, {"MarkPublished"}, B.id)

\* a tick in which A failed and the later B was published and marked
C3_Witness ==
    \E w \in active :
        /\ TickDone(w)
        /\ \E i \in 1..Len(calls[w]), k \in 1..Len(calls[w]) :
              /\ i < k
              /\ calls[w][i].op = "Publish" /\ calls[w][i].err # Nil
              /\ calls[w][k].op = "Publish" /\ calls[w][k].err = Nil
              /\ calls[w][k].id # calls[w][i].id
              /\ k + 1 \in CallsAt(w, {"MarkPublished"}, calls[w][k].id)

\* the event failed once, then was published, and both store writes went
\* through
FailedThenSucceeded(id) ==
    /\ Len(attempts[id]) = 2
    /\ attempts[id][1].res # Nil /\ attempts[id][1].mark = "ok"
    /\ attempts[id][2].res = Nil /\ attempts[id][2].mark = "ok"

\* C4: in one tick every fetched event below the ceiling gets exactly one
\* Publish call, directly followed by exactly one store write for it:
\* MarkPublished if Publish returned nil, MarkFailed with the publish error
\* otherwise. An event that failed once and then succeeded ends with
\* retry_count 1, last_error the first error, and published_at set.
C4_PerEventOutcome ==
    /\ \A w \in active :
          TickDone(w) =>
             \A j \in 1..Len(batch[w]) :
                LET e == batch[w][j]
                    P == CallsAt(w, {"Publish"}, e.id)
                IN  BelowCeiling(w, e) =>
                       /\ Cardinality(P) = 1
                       /\ Cardinality(CallsAt(w, MarkOps, e.id)) = 1
                       /\ \A i \in P :
                             /\ i + 1 \in CallsAt(w, MarkOps, e.id)
                             /\ calls[w][i].err = Nil
                                   => calls[w][i + 1].op = "MarkPublished"
                             /\ calls[w][i].err # Nil
                                   => /\ calls[w][i + 1].op = "MarkFailed"
                                      /\ calls[w][i + 1].arg = calls[w][i].err
    /\ \A id \in EventIds :
          FailedThenSucceeded(id) =>
             /\ outbox[id].retry_count = 1
             /\ outbox[id].last_error = attempts[id][1].res
             /\ outbox[id].published_at # Nil

\* the second tick of an event that failed in its first tick is over
C4_Witness ==
    \E w \in active :
        /\ TickDone(w)
        /\ \E id \in EventIds :
              /\ FailedThenSucceeded(id)
              /\ CallsAt(w, {"MarkPublished"}, id) # {}

NoPending(w) ==
    \A id \in EventIds : \A i \in 1..Len(attempts[id]) :
        attempts[id][i].w = w => attempts[id][i].mark # "pending"

\* C10: the worker closes done only from the select, with every dispatched
\* event of the interrupted tick marked; Stop() returns only after the run
\* loop has exited, and after that the worker makes no publisher or store
\* call.
C10_CleanShutdown ==
    /\ [](\A w \in active :
            /\ done[w] => (pc[w] = "exited" /\ NoPending(w))
            /\ stopPc[w] = "returned" => done[w])
    /\ [][\A w \in active :
            stopPc[w] = "returned"
               => (calls'[w] = calls[w] /\ attempts' = attempts)]_vars

\* Stop() has returned after a cancellation that hit the worker between a
\* Publish and its store write
C10_Witness ==
    \E w \in active :
        /\ stopPc[w] = "returned"
        /\ \E id \in EventIds : \E i \in 1..Len(attempts[id]) :
              attempts[id][i].mark = "err"

(* ---------------------------------------------------------------------- *)
(* Properties of the repository methods                                    *)
(* ---------------------------------------------------------------------- *)
\* C5: a MarkPublished on an event that is already published (and that the
\* database executes) returns no error and leaves published_at as the
\* first call wrote it.
C5_MarkPublishedIdempotent ==
    [][\A id \in DOMAIN outbox :
          (/\ CallMarkPublished(id)
           /\ outbox[id].published_at # Nil
           /\ dbFaults' = dbFaults)
          => (/\ ret'.err = Nil
              /\ outbox'[id].published_at = outbox[id].published_at)]_vars

\* C6: a successful MarkFailed(id, err) adds exactly 1 to the retry_count
\* the row has at the time of the update, sets last_error to the message,
\* and changes nothing else: no other column, no other row.
C6_MarkFailedEffect ==
    [][\A id \in EventIds, msg \in ErrorMsgs :
          (CallMarkFailed(id, msg) /\ ret'.err = Nil)
          => /\ DOMAIN outbox' = DOMAIN outbox
             /\ \A i \in DOMAIN outbox :
                   outbox'[i] =
                      IF i = id
                      THEN [outbox[i] EXCEPT !.retry_count = @ + 1,
                                             !.last_error = Ptr(msg)]
                      ELSE outbox[i]]_vars

\* the second MarkFailed on the same event has raised its retry_count to 2
\* and replaced the message of the first, next to an untouched other row
C6_Witness ==
    /\ ret.op = "MarkFailed" /\ ret.err = Nil
    /\ ret.id \in DOMAIN outbox
    /\ outbox[ret.id].retry_count = 2
    /\ outbox[ret.id].last_error = Ptr(ret.arg)
    /\ \E i \in DOMAIN outbox : i # ret.id /\ outbox[i].retry_count = 0

\* C7: FetchUnpublished(limit) returns unpublished events only, no more
\* than limit, oldest first in ascending created_at order; for limit <= 0
\* the result is empty and the limit itself causes no error.
C7_FetchUnpublished ==
    [][\A limit \in Limits :
          CallFetchUnpublished(limit)
          => LET rows == ret'.rows
                 U == {id \in DOMAIN outbox : outbox[id].published_at = Nil}
                 got == {rows[i].id : i \in 1..Len(rows)}
             IN  /\ \A i \in 1..Len(rows) :
                       rows[i].id \in U /\ rows[i] = outbox[rows[i].id]
                 /\ Cardinality(got) = Len(rows)
                 /\ Len(rows) <= (IF limit < 0 THEN 0 ELSE limit)
                 /\ \A i \in 1..Len(rows), j \in 1..Len(rows) :
                       i < j => rows[i].created_at <= rows[j].created_at
                 /\ \A u \in U \ got : \A i \in 1..Len(rows) :
                       rows[i].created_at <= outbox[u].created_at
                 /\ ret'.err = Nil =>
                       Len(rows) = Min(IF limit < 0 THEN 0 ELSE limit,
                                       Cardinality(U))
                 /\ limit <= 0 =>
                       (rows = <<>> /\ (ret'.err # Nil => dbFaults' # dbFaults))
      ]_vars

\* a fetch cut by its limit: the older event is returned, a strictly newer
\* unpublished one is left out
C7_Witness ==
    /\ ret.op = "FetchUnpublished" /\ ret.err = Nil
    /\ ret.arg = 1 /\ Len(ret.rows) = 1
    /\ \E u \in DOMAIN outbox :
          /\ outbox[u].published_at = Nil
          /\ outbox[u].created_at > ret.rows[1].created_at

\* C8: Store(events) either returns nil and has added every event of the
\* batch (and nothing else), or returns an error and has changed nothing;
\* an empty batch returns nil and changes nothing.
C8_StoreAllOrNothing ==
    [][\A events \in StoreInputs :
          CallStore(events)
          => /\ ret'.err = Nil =>
                   /\ DOMAIN outbox' =
                         DOMAIN outbox \cup {events[i].id : i \in 1..Len(events)}
                   /\ \A i \in 1..Len(events) :
                         /\ events[i].id \notin DOMAIN outbox
                         /\ outbox'[events[i].id] = events[i]
                   /\ \A id \in DOMAIN outbox : outbox'[id] = outbox[id]
             /\ ret'.err # Nil => outbox' = outbox
             /\ events = <<>> => (ret'.err = Nil /\ outbox' = outbox)]_vars

\* a batch of two failed on its second row, and its first row is not in
\* the table
C8_Witness ==
    /\ ret.op = "Store" /\ ret.err # Nil /\ ret.arg = 2
    /\ ret.rows[1] \notin DOMAIN outbox
    /\ ret.rows[2] \in DOMAIN outbox \/ ret.rows[2] = ret.rows[1]
    /\ dbFaults = 0

(* ---------------------------------------------------------------------- *)
(* Delivery                                                                *)
(* ---------------------------------------------------------------------- *)
\* C1: every stored event is eventually marked published by the running
\* worker, unless its retry_count reaches maxRetries
C1_AtLeastOnce ==
    \A id \in EventIds :
        (id \in DOMAIN outbox /\ pc["w1"] # "new")
        ~> (/\ id \in DOMAIN outbox
            /\ \/ outbox[id].published_at # Nil
               \/ outbox[id].retry_count >= maxRetries["w1"])

(* ---------------------------------------------------------------------- *)
(* Properties of the notification dispatch service                         *)
(* ---------------------------------------------------------------------- *)
\* this step is a call of the service method, with the inputs svc' records
SendInAppStep == svc'.op = "SendInApp" /\ CallSendInApp(svc'.msg, svc'.env)
SendPushStep == svc'.op = "SendPush" /\ CallSendPush(svc'.msg, svc'.env)
SendEmailStep == svc'.op = "SendEmail" /\ CallSendEmail(svc'.msg, svc'.env)

\* positions of the calls of collaborator op in the recorded call c
SvcCallsOf(c, op) == {i \in 1..Len(c.calls) : c.calls[i].op = op}

SenderOps == {"pushSender.Send", "emailSender.Send"}

\* the tokens of the lookup result that are active
ActiveSet(tokens) == {tokens[i].Token : i \in {j \in 1..Len(tokens) : tokens[j].Active}}

\* C11: when the preference lookup fails, SendInApp still writes the
\* notification and returns the result of that write (nil and the row is
\* stored, or the wrapped store error); SendPush for a user without tokens,
\* or with inactive tokens only, calls no sender, writes no delivery log and
\* returns nil.
C11_PreferenceAsymmetry ==
    [][/\ (SendInAppStep /\ svc'.env.prefs.err # Nil)
          => /\ Cardinality(SvcCallsOf(svc', "notificationRepo.Store")) = 1
             /\ svc'.env.store = Nil
                   => /\ svc'.ret = Nil
                      /\ Len(notifications') = Len(notifications) + 1
                      /\ SubSeq(notifications', 1, Len(notifications)) = notifications
                      /\ LET n == notifications'[Len(notifications')]
                         IN  /\ n.UserID = svc'.msg.UserID
                             /\ n.Title = svc'.msg.Title
                             /\ n.Type = svc'.msg.Type
                             /\ n.Read = FALSE
                             /\ (n.ActionURL = Nil) = (svc'.msg.ActionURL = "")
                             /\ n.ActionURL # Nil => n.ActionURL[1] = svc'.msg.ActionURL
             /\ svc'.env.store # Nil
                   => /\ svc'.ret # Nil /\ svc'.ret[1][2] = svc'.env.store[1]
                      /\ notifications' = notifications
       /\ (SendPushStep /\ svc'.env.tokens.err = Nil
              /\ ActiveSet(svc'.env.tokens.tokens) = {})
          => /\ SvcCallsOf(svc', "pushSender.Send") = {}
             /\ SvcCallsOf(svc', "deliveryLogRepo.Store") = {}
             /\ deliveryLogs' = deliveryLogs
             /\ svc'.ret = Nil]_vars

\* SendInApp has stored the notification of a user whose preference lookup
\* failed
C11_Witness ==
    /\ svc.op = "SendInApp" /\ svc.env.prefs.err # Nil /\ svc.ret = Nil
    /\ Len(notifications) >= 1
    /\ notifications[Len(notifications)].UserID = svc.msg.UserID

\* C12: with a preference row that disables the channel, SendInApp makes no
\* store call, leaves the table alone and returns nil; SendPush makes no
\* token lookup, no send, no delivery-log write and returns nil.
C12_DisabledChannelNoop ==
    [][/\ (SendInAppStep /\ svc'.env.prefs.err = Nil
              /\ ~svc'.env.prefs.prefs[1].InAppEnabled)
          => /\ SvcCallsOf(svc', "notificationRepo.Store") = {}
             /\ notifications' = notifications
             /\ svc'.ret = Nil
       /\ (SendPushStep /\ svc'.env.prefs.err = Nil
              /\ ~svc'.env.prefs.prefs[1].PushEnabled)
          => /\ SvcCallsOf(svc', "pushTokenRepo.GetByUserID") = {}
             /\ SvcCallsOf(svc', "pushSender.Send") = {}
             /\ SvcCallsOf(svc', "deliveryLogRepo.Store") = {}
             /\ deliveryLogs' = deliveryLogs
             /\ svc'.ret = Nil]_vars

\* SendPush has returned for a user who disabled push, after the preference
\* lookup alone
C12_Witness ==
    /\ svc.op = "SendPush" /\ svc.ret = Nil
    /\ svc.env.prefs.err = Nil /\ ~svc.env.prefs.prefs[1].PushEnabled
    /\ Len(svc.calls) = 1 /\ svc.calls[1].op = "prefsRepo.Get"

\* C13: when the user's preference row has EmailEnabled = false, SendEmail
\* does not call the email sender and returns nil.
C13_EmailRespectsPreferences ==
    [][(SendEmailStep /\ svc'.env.prefs.err = Nil
           /\ ~svc'.env.prefs.prefs[1].EmailEnabled)
       => /\ SvcCallsOf(svc', "emailSender.Send") = {}
          /\ svc'.ret = Nil]_vars

\* C14: SendPush with push enabled, a configured sender and at least one
\* active token calls the sender exactly once, with exactly the active
\* tokens, then makes exactly one delivery-log write for channel push and
\* the user, with status sent if the sender returned nil and failed with the
\* error text otherwise; the row is in the table when that write succeeds;
\* the sender's error is returned, wrapped.
C14_PushSendAndLog ==
    [][(/\ SendPushStep
        /\ svc'.env.prefs.err = Nil /\ svc'.env.prefs.prefs[1].PushEnabled
        /\ svc'.env.tokens.err = Nil
        /\ ActiveSet(svc'.env.tokens.tokens) # {}
        /\ svc'.env.pushSender)
       => LET S == SvcCallsOf(svc', "pushSender.Send")
              L == SvcCallsOf(svc', "deliveryLogRepo.Store")
          IN  /\ Cardinality(S) = 1 /\ Cardinality(L) = 1
              /\ \A i \in S : \A k \in L :
                    LET sent == svc'.calls[i].arg
                        log == svc'.calls[k].arg
                    IN  /\ i < k
                        /\ {sent[j] : j \in 1..Len(sent)}
                              = ActiveSet(svc'.env.tokens.tokens)
                        /\ Len(sent) = Cardinality(ActiveSet(svc'.env.tokens.tokens))
                        /\ svc'.calls[i].err = svc'.env.push
                        /\ log.Channel = "push" /\ log.UserID = svc'.msg.UserID
                        /\ log.Attempts = 1
                        /\ svc'.env.push = Nil
                              => (log.Status = "sent" /\ log.ErrorMessage = Nil
                                  /\ svc'.ret = Nil)
                        /\ svc'.env.push # Nil
                              => (/\ log.Status = "failed"
                                  /\ log.ErrorMessage = svc'.env.push
                                  /\ svc'.ret # Nil
                                  /\ svc'.ret[1][2] = svc'.env.push[1])
                        /\ svc'.calls[k].err = Nil
                              => (/\ Len(deliveryLogs') = Len(deliveryLogs) + 1
                                  /\ SubSeq(deliveryLogs', 1, Len(deliveryLogs))
                                        = deliveryLogs
                                  /\ [deliveryLogs'[Len(deliveryLogs')] EXCEPT !.ID = 0]
                                        = log)
                        /\ svc'.calls[k].err # Nil => deliveryLogs' = deliveryLogs
      ]_vars

\* a failed send to the one active token of a user who also has an inactive
\* one, logged as failed
C14_Witness ==
    /\ svc.op = "SendPush" /\ svc.ret # Nil
    /\ Len(svc.env.tokens.tokens) = 2
    /\ Cardinality(ActiveSet(svc.env.tokens.tokens)) = 1
    /\ Len(deliveryLogs) >= 1
    /\ deliveryLogs[Len(deliveryLogs)].Status = "failed"
    /\ deliveryLogs[Len(deliveryLogs)].UserID = svc.msg.UserID

\* C15: the value SendPush returns is the one it returns when the
\* delivery-log write succeeds: nil or the wrapped error of the token lookup
\* or of the sender, never the error of the log write; the log write is
\* made at most once per call, and a failed one leaves the table alone.
C15_LogFailureSwallowed ==
    [][SendPushStep
       => LET L == SvcCallsOf(svc', "deliveryLogRepo.Store")
          IN  /\ Cardinality(L) <= 1
              /\ svc'.ret = SendPush(svc'.msg, [svc'.env EXCEPT !.log = Nil],
                                     deliveryLogs).ret
              /\ \A k \in L :
                    svc'.calls[k].err # Nil
                    => /\ deliveryLogs' = deliveryLogs
                       /\ (svc'.ret = Nil) = (svc'.env.push = Nil)
                       /\ svc'.ret # Nil => svc'.ret[1][2] = svc'.env.push[1]]_vars

\* the send went through, the log write failed, and SendPush returned nil
C15_Witness ==
    /\ svc.op = "SendPush" /\ svc.ret = Nil
    /\ \E k \in SvcCallsOf(svc, "deliveryLogRepo.Store") : svc.calls[k].err # Nil
    /\ SvcCallsOf(svc, "pushSender.Send") # {}

\* C16: every call of the push sender or of the email sender made by the
\* service, whether it succeeds or fails, is followed by exactly one call of
\* DeliveryLogRepo.Store in the same service call.
C16_DeliveryLogCoverage ==
    [][(SendPushStep \/ SendEmailStep)
       => \A i \in 1..Len(svc'.calls) :
             svc'.calls[i].op \in SenderOps
             => /\ Cardinality(SvcCallsOf(svc', "deliveryLogRepo.Store")) = 1
                /\ i + 1 \in SvcCallsOf(svc', "deliveryLogRepo.Store")]_vars

(* ---------------------------------------------------------------------- *)
(* Properties of the FCM sender                                            *)
(* ---------------------------------------------------------------------- *)
\* the gateway answered the call recorded in c with one result per token
OneResultPerToken(c) ==
    /\ c.tokens # <<>>
    /\ c.http # Nil /\ c.http.kind = "ok"
    /\ Len(c.http.body[1].Results) = Len(c.tokens)

\* the call recorded in c returned the gateway's counts and, in order, each
\* token whose result carries an error, with that error
ReportsFailures(c) ==
    LET resp == c.http.body[1]
        bad == {i \in 1..Len(resp.Results) : resp.Results[i].Error # ""}
    IN  /\ ~c.panic /\ c.err = Nil /\ c.result # Nil
        /\ c.result[1].SuccessCount = resp.Success
        /\ c.result[1].FailureCount = resp.Failure
        /\ LET ft == c.result[1].FailedTokens
           IN  /\ Len(ft) = Cardinality(bad)
               /\ \A i \in bad :
                     \E k \in 1..Len(ft) :
                        /\ ft[k] = [Token |-> c.tokens[i], Error |-> resp.Results[i].Error]
                        /\ k = Cardinality({j \in bad : j <= i})

\* C17 as stated: for every gateway response with one result per token,
\* SendWithResult returns no error, the gateway's counts, and exactly the
\* tokens at the positions of the results with an error, each with its error.
C17_PartialFailureAnyResponse ==
    OneResultPerToken(fcm) => ReportsFailures(fcm)

\* the gateway's failure count is positive when one of its results carries
\* an error
CountsFailures(resp) ==
    (\E i \in 1..Len(resp.Results) : resp.Results[i].Error # "") => resp.Failure > 0

\* C17 amended: the same, for the responses whose failure count is positive
\* whenever a result carries an error.
C17_PartialFailureReport ==
    (OneResultPerToken(fcm) /\ CountsFailures(fcm.http.body[1]))
    => ReportsFailures(fcm)

\* two tokens, the first accepted and the second refused: counts 1 and 1,
\* and the second token listed with the gateway's error
C17_Witness ==
    /\ OneResultPerToken(fcm)
    /\ Len(fcm.tokens) = 2 /\ fcm.tokens[1] # fcm.tokens[2]
    /\ fcm.http.body[1].Results[1].Error = ""
    /\ fcm.http.body[1].Results[2].Error # ""
    /\ fcm.result # Nil
    /\ fcm.result[1].SuccessCount = 1 /\ fcm.result[1].FailureCount = 1
    /\ fcm.result[1].FailedTokens
          = <<[Token |-> fcm.tokens[2], Error |-> fcm.http.body[1].Results[2].Error]>>

(* ---------------------------------------------------------------------- *)
(* Subscriber and notification worker                                      *)
(* ---------------------------------------------------------------------- *)
HandledIds == {handled[k].id : k \in 1..Len(handled)}

\* C18: a message is acknowledged only after handleEvent has returned for its
\* event: every acknowledged message id is the id of a handled event.
C18_AckAfterHandling == \A id \in acked : id \in HandledIds

BadOutcomes == {"unhandled type", "bad payload", "send failed"}

HandleEventStep == nwPc = "handle" /\ handled' # handled

\* C19: handling an event of unknown type, with an undecodable payload or
\* whose SendInApp fails stores nothing and leaves the worker at its select,
\* ready for the next event; the worker handles the events in the order of
\* the stream, skipping none, and returns only when the context is cancelled
\* or the stream is closed.
C19_BadEventNotFatal ==
    /\ [][HandleEventStep =>
            /\ nwPc' = "select"
            /\ Len(handled') = Len(handled) + 1
            /\ handled'[Len(handled')].id = nwEvent[1].ID
            /\ handled'[Len(handled')].outcome \in BadOutcomes
                  => notifications' = notifications]_vars
    /\ [](\A k \in 1..Len(handled) : handled[k].id = k)
    /\ [](nwPc = "exited" => ctxDone \/ subPc = "exited")
    /\ [](nwPc = "handle" => Len(handled) = nwEvent[1].ID - 1)

C19_Witness ==
    /\ Len(handled) = 2
    /\ handled[1].outcome \in BadOutcomes
    /\ handled[2].outcome = "done"
    /\ Len(notifications) = 1

\* Subscribe has returned a stream
Subscribed == subPc \notin {"new", "failed"}

\* C28: once the context is cancelled or the delivery stream is closed, the
\* subscriber goroutine eventually returns (which closes the event stream),
\* and the loop of the notification worker then returns too.
C28_SubscriberTerminates ==
    /\ (Subscribed /\ (ctxDone \/ msgsClosed)) ~> (subPc = "exited")
    /\ (subPc = "exited") ~> (nwPc = "exited")

(* ---------------------------------------------------------------------- *)
(* Several worker instances                                                *)
(* ---------------------------------------------------------------------- *)
SuccessfulPublishes(id) ==
    {i \in 1..Len(attempts[id]) : attempts[id][i].res = Nil}

\* C20: with two workers on the same store, an event whose MarkPublished
\* writes all succeeded has been published successfully at most once: a
\* second successful publish needs a failed MarkPublished write.
C20_NoDuplicateWithoutMarkFailure ==
    \A id \in EventIds :
        (\A i \in SuccessfulPublishes(id) : attempts[id][i].mark = "ok")
            => Cardinality(SuccessfulPublishes(id)) <= 1

(* ---------------------------------------------------------------------- *)
(* Order and row invariants of the outbox worker                           *)
(* ---------------------------------------------------------------------- *)
\* positions of the Publish calls in the current tick of worker w
PublishCalls(w) == {i \in 1..Len(calls[w]) : calls[w][i].op = "Publish"}

\* position in the batch of w of the event with this id
BatchPos(w, id) == {j \in 1..Len(batch[w]) : batch[w][j].id = id}

\* C21: in one tick of a worker the batch is in ascending created_at order,
\* the Publish calls follow the order of the batch, and each Publish call is
\* followed by the store write for its event before the next Publish call:
\* no event is dispatched before an older dispatched event of the batch.
C21_FifoWithinBatch ==
    \A w \in active :
        /\ \A a \in 1..Len(batch[w]), b \in 1..Len(batch[w]) :
              a < b => batch[w][a].created_at <= batch[w][b].created_at
        /\ \A i \in PublishCalls(w), k \in PublishCalls(w) :
              i < k =>
                 /\ \A a \in BatchPos(w, calls[w][i].id),
                       b \in BatchPos(w, calls[w][k].id) :
                          /\ a < b
                          /\ outbox[calls[w][i].id].created_at
                                <= outbox[calls[w][k].id].created_at
                 /\ BatchPos(w, calls[w][i].id) # {}
                 /\ BatchPos(w, calls[w][k].id) # {}
                 /\ calls[w][i + 1].op \in MarkOps
                 /\ calls[w][i + 1].id = calls[w][i].id
                 /\ i + 1 < k

\* a tick that dispatched an older event and then a younger one
C21_Witness ==
    \E w \in active :
        /\ TickDone(w)
        /\ \E i \in PublishCalls(w), k \in PublishCalls(w) :
              /\ i < k
              /\ outbox[calls[w][i].id].created_at
                    < outbox[calls[w][k].id].created_at

\* the columns of outbox_events no UPDATE of the repository sets
ImmutableFields ==
    {"id", "aggregate_type", "aggregate_id", "event_type", "payload", "created_at"}

\* C22: no step of the worker deletes a row, lowers a retry_count, resets a
\* published_at to null, or changes a column other than published_at,
\* retry_count and last_error.
C22_RowInvariants ==
    [][\A id \in DOMAIN outbox :
          /\ id \in DOMAIN outbox'
          /\ outbox'[id].retry_count >= outbox[id].retry_count
          /\ outbox[id].published_at # Nil => outbox'[id].published_at # Nil
          /\ \A f \in ImmutableFields : outbox'[id][f] = outbox[id][f]]_vars

\* the worker has written all three mutable columns of a row
C22_Witness ==
    \E id \in DOMAIN outbox :
        /\ outbox[id].published_at # Nil
        /\ outbox[id].retry_count >= 1
        /\ outbox[id].last_error # Nil
        /\ \E w \in active : CallsAt(w, {"MarkPublished"}, id) # {}

\* every Publish call for the event so far failed and its MarkFailed was
\* written (or is about to be)
OnlyRecordedFailures(id) ==
    \A i \in 1..Len(attempts[id]) :
        attempts[id][i].res # Nil /\ attempts[id][i].mark # "err"

\* C29: with one worker the retry_count of every event stays at or below
\* maxRetries, and an event whose publishes all failed and whose MarkFailed
\* calls all succeeded has been passed to Publish at most maxRetries times.
C29_RetryBound ==
    \A w \in active :
        /\ \A id \in DOMAIN outbox : outbox[id].retry_count <= maxRetries[w]
        /\ \A id \in EventIds :
              OnlyRecordedFailures(id) => Len(attempts[id]) <= maxRetries[w]

\* an event failed maxRetries = 2 times, reached the ceiling, and the tick
\* after that fetched it and made no call for it
C29_Witness ==
    \E w \in active : \E id \in DOMAIN outbox :
        /\ maxRetries[w] = 2
        /\ OnlyRecordedFailures(id)
        /\ Len(attempts[id]) = maxRetries[w]
        /\ outbox[id].retry_count = maxRetries[w]
        /\ TickDone(w)
        /\ BatchPos(w, id) # {}
        /\ CallsAt(w, {"Publish"}, id) = {}

\* a MarkPublished call for the event has succeeded
MarkedPublished(id) ==
    \E i \in 1..Len(attempts[id]) :
        attempts[id][i].res = Nil /\ attempts[id][i].mark = "ok"

\* C30: with one worker, once MarkPublished has succeeded for an event no
\* later FetchUnpublished returns it and no later Publish call is made for
\* it; an event has two successful publishes only if the MarkPublished
\* after the earlier one failed.
C30_PublishedIsFinal ==
    /\ [][\A w \in active : \A id \in EventIds :
             MarkedPublished(id) =>
                /\ attempts'[id] = attempts[id]
                /\ batch'[w] # batch[w] => BatchPos(w, id)' = {}]_vars
    /\ [](\A id \in EventIds :
             \A i \in SuccessfulPublishes(id), k \in SuccessfulPublishes(id) :
                i < k => attempts[id][i].mark = "err")

\* an event was published twice because its first MarkPublished failed; the
\* second one succeeded and the tick after it fetched without the event
C30_Witness ==
    \E w \in active : \E id \in DOMAIN outbox :
        /\ Cardinality(SuccessfulPublishes(id)) = 2
        /\ MarkedPublished(id)
        /\ outbox[id].published_at # Nil
        /\ TickDone(w)
        /\ CallsAt(w, MarkOps \cup {"Publish"}, id) = {}
        /\ BatchPos(w, id) = {}

\* the event waits for a dispatch: unpublished, below the ceiling of the
\* running worker, and no store write for it is outstanding
AwaitsDispatch(id) ==
    /\ id \in DOMAIN outbox
    /\ pc["w1"] # "new"
    /\ outbox[id].published_at = Nil
    /\ outbox[id].retry_count < maxRetries["w1"]
    /\ \A i \in 1..Len(attempts[id]) : attempts[id][i].mark # "pending"

\* C26: every unpublished event below the retry ceiling is eventually
\* passed to Publish by the running worker, whatever abandoned events are in
\* the store.
C26_NoStarvation ==
    \A id \in EventIds : \A n \in 0..(MaxMaxRetries + MaxDbFaults + 1) :
        (AwaitsDispatch(id) /\ Len(attempts[id]) = n)
            ~> (Len(attempts[id]) > n)

(* ---------------------------------------------------------------------- *)
(* Isolation of the channels of the dispatch service                       *)
(* ---------------------------------------------------------------------- *)
\* the environment with everything but the in-app channel's collaborators
\* (preferences, notification store) replaced by quiet ones
InAppView(env) == [QuietEnv EXCEPT !.prefs = env.prefs, !.store = env.store]

\* the environment with the notification store and the email sender quiet
PushView(env) == [env EXCEPT !.store = Nil, !.email = Nil, !.emailSender = TRUE]

\* the environment with the notification store and the push sender quiet
EmailView(env) == [env EXCEPT !.store = Nil, !.push = Nil, !.pushSender = TRUE]

\* C24: the result, the calls and the stored rows of a send on one channel
\* are those of the same send with the other channels' senders succeeding:
\* SendInApp does not depend on the push and email senders (failing,
\* succeeding or absent) and writes no delivery log; SendPush and SendEmail
\* do not depend on the notification store or on the other sender and store
\* no notification.
C24_ChannelIsolation ==
    /\ svc.op = "SendInApp" =>
          /\ SendInApp(svc.msg, InAppView(svc.env), <<>>, now)
                = [ret |-> svc.ret, calls |-> svc.calls,
                   notifications |-> notifications]
          /\ deliveryLogs = <<>>
    /\ svc.op = "SendPush" =>
          /\ SendPush(svc.msg, PushView(svc.env), <<>>)
                = [ret |-> svc.ret, calls |-> svc.calls,
                   deliveryLogs |-> deliveryLogs]
          /\ notifications = <<>>
    /\ svc.op = "SendEmail" =>
          /\ SendEmail(svc.msg, EmailView(svc.env), <<>>)
                = [ret |-> svc.ret, calls |-> svc.calls,
                   deliveryLogs |-> deliveryLogs]
          /\ notifications = <<>>

\* SendInApp stored the notification and returned nil although the push
\* sender fails and no email sender is configured
C24_Witness ==
    /\ svc.op = "SendInApp"
    /\ svc.env.push # Nil /\ svc.env.pushSender
    /\ ~svc.env.emailSender
    /\ svc.ret = Nil
    /\ Len(notifications) = 1

(* ---------------------------------------------------------------------- *)
(* Bus messages                                                            *)
(* ---------------------------------------------------------------------- *)
\* C25: a published event is on the exchange as a persistent message with
\* routing key event_type, message id the id in string form and body the
\* payload; the Event the subscriber delivers for it has that id string as
\* ID, the event_type as Type and the payload bytes as Payload.
C25_BusRoundTrip ==
    /\ \A i \in 1..Len(bus.wire) :
          LET x == bus.wire[i]
          IN  /\ x.msg.DeliveryMode = "persistent"
              /\ x.msg.MessageId = UUIDString(x.event.id)
              /\ x.key = x.event.event_type
              /\ x.msg.Body = x.event.payload
    /\ \A i \in 1..Len(bus.events) :
          LET y == bus.events[i]
          IN  /\ y.ev.ID = UUIDString(y.event.id)
              /\ y.ev.Type = y.event.event_type
              /\ y.ev.Payload = y.event.payload

\* two events went through to the stream, one with a payload
C25_Witness ==
    /\ Len(bus.events) = 2
    /\ bus.events[1].event.id # bus.events[2].event.id
    /\ \E i \in 1..2 : bus.events[i].ev.Payload # <<>>

(* ---------------------------------------------------------------------- *)
(* Log sampler                                                             *)
(* ---------------------------------------------------------------------- *)
\* C23: between two resets of lastReset (one interval of the sampler) at
\* most rate calls of ShouldLog return true, whatever the interleaving of
\* the callers.
C23_RateLimit == sampler.made => sampler.granted <= sampler.rate

(* ---------------------------------------------------------------------- *)
(* Push tokens                                                             *)
(* ---------------------------------------------------------------------- *)
\* a SendPush that got past the preference check and the token lookup, with
\* a push sender configured
SendPushStoredStep ==
    /\ svc' # svc
    /\ svc'.op = "SendPush"
    /\ ~PushDisabled(svc'.env.prefs)
    /\ svc'.env.tokens.err = Nil
    /\ svc'.env.pushSender

\* C27: every token stored for the user, not deleted and still active in
\* the table, is among the tokens SendPush passes to the push sender.
C27_RegisteredTokenIsSent ==
    [][SendPushStoredStep =>
          \A i \in 1..Len(pushTokens) :
              (pushTokens[i].user_id = svc'.msg.UserID /\ pushTokens[i].active)
              => \E k \in 1..Len(svc'.calls) :
                    /\ svc'.calls[k].op = "pushSender.Send"
                    /\ \E j \in 1..Len(svc'.calls[k].arg) :
                          svc'.calls[k].arg[j] = pushTokens[i].token]_vars

====
